---- MODULE Spec2Model ----
(***************************************************************************)
(* Model of my-actor/src/main.py: the Vizcom workflow driver.              *)
(*                                                                         *)
(*   retry_click                   the escalating click (SpecClick)        *)
(*   _layer_ready_and_row,         the readiness predicates evaluated in   *)
(*   _wait_until_layer_ready,      the page (SpecPoll)                     *)
(*   _wait_for_new_layer                                                   *)
(*   the "Start in Studio" look-up the resolution order (SpecResolve)      *)
(*   main, perform_button_sequence,                                        *)
(*   _handle_generation_and_export,                                        *)
(*   _export_layer_as_glb          the run as a whole (Spec), and with     *)
(*                                 its scheduling (LiveSpec)               *)
(*                                                                         *)
(* The target page is not under the program's control: its layer rows and  *)
(* its loading banner change between any two awaits of the program, and    *)
(* the page or browser can become unusable at any moment, after which      *)
(* every Playwright call raises.                                           *)
(***************************************************************************)
EXTENDS Integers, Sequences, FiniteSets, TLC

\* ---------------------------------------------------------------- bounds
\* Largest number of rows in the layer list of the target page.
MaxRows == 2
\* max_attempts of _export_layer_as_glb in the model (the caller passes 60).
MaxExportAttempts == 3
\* retry_click is explored for max_attempts in 0..MaxClickAttempts.
MaxClickAttempts == 5
\* Largest number of text elements of the page read by the "Start in Studio"
\* resolution.
MaxTexts == 3

\* ------------------------------------------------------ program constants
\* retry_click(..., max_attempts: int = 4)
DefaultClickAttempts == 4

VARIABLES
    \* --- main / perform_button_sequence
    pc,             \* position of the single control flow
    prompt,         \* prompt_text is given (truthy)
    stepIndex,      \* index into buttons_to_click of the step to run next
    outcome,        \* how the most recent step ended ("running" inside it)
    anyFailed,      \* some step already finished without success
    transportStep,  \* step during which the page became unusable, 0 if none
    seqPath,        \* 'exported_glb_path' in perform_button_sequence's result_data
    mainPath,       \* 'exported_glb_path' in main's result_data
    status,         \* "none"; "success": main took the branch of line 1426;
                    \* "failed": main called actor.fail()
    outputWritten,  \* actor.set_value('OUTPUT', ...) went through
    button,         \* the local `button`: step in which its handle was resolved, 0 for None
    lastAct,        \* the sequencer's latest activations of a handle (see Activation)
    menuOpen,       \* menu_open of the options step
    genClicked,     \* the 'Generate 3D' menu item was clicked
    exportCalled,   \* _handle_generation_and_export was called
    snapshot,       \* what the most recent step captured of the page at its look-up
    started,        \* the texts of the steps the for loop has entered, in order
    mainFault,      \* a raising call of main changed what the run reports
    \* --- the target page
    pageAlive,      \* page/browser session usable
    banner,         \* 'Loading 3D model' in document.body.innerText
    rows,           \* the nodes matching 'li .sc-KxFZn.hoverable', in order
    \* --- _handle_generation_and_export / _export_layer_as_glb
    newLayer,       \* index returned by _wait_for_new_layer, 0 for None
    layerTimeout,   \* page.wait_for_function of _wait_for_new_layer raised
    layerEl,        \* layer_el: "param", "fresh" (this attempt's row), "stale"
    attempt,        \* loop variable of the export loop, 0 before the loop
    notReady,       \* attempts so far that found no ready row
    bodyFailed,     \* some attempt so far found a ready row and did not export
    exportPath,     \* 'exported_glb_path' in the export's result_data
    saved,          \* a download was saved as exported.glb
    exportRet,      \* "none", "success", "exhausted", "raised"
    sawBanner,      \* the readiness check of the current attempt read the banner
    \* --- one call of retry_click (SpecClick)
    ckElem, ckMax, ckPc, ckAttempt, ckCalls, ckRet,
    \* --- one evaluation of the readiness predicates (SpecPoll)
    pollRes,
    \* --- one resolution of the "Start in Studio" button (SpecResolve)
    dom,            \* what the page holds when the step looks for the button
    resolved,       \* what the resolution came to
    \* --- one generic step, one upload, one export attempt (SpecTrace)
    scen,           \* how the browser answers the calls of the fragment
    tPc,            \* position in the fragment
    trace           \* the operations performed so far, in order

stepVars   == <<button, lastAct, menuOpen, genClicked, exportCalled, snapshot, started>>
seqVars    == <<pc, prompt, stepIndex, outcome, anyFailed, transportStep,
                seqPath, mainPath, status, outputWritten, stepVars>>
pageVars   == <<pageAlive, banner, rows>>
exportVars == <<newLayer, layerTimeout, layerEl, attempt, notReady, bodyFailed,
                exportPath, saved, exportRet, sawBanner>>
clickVars  == <<ckElem, ckMax, ckPc, ckAttempt, ckCalls, ckRet>>
resolveVars == <<dom, resolved>>
reportVars == <<mainFault>>
traceVars  == <<scen, tPc, trace>>
vars       == <<seqVars, pageVars, exportVars, clickVars, pollRes, resolveVars,
                reportVars, traceVars>>

\* ======================================================== retry_click
\* What the caller hands to retry_click and how the browser answers each
\* technique for it.  kind: an ElementHandle, None, or a str; hasSel: page and
\* selector were passed; reacq: answer of page.query_selector(selector);
\* native/forced/script: the call performs its click without raising; bbox:
\* answer of element.bounding_box(); mouse: element.page() and
\* page.mouse.click perform without raising.  A stale handle is a handle whose
\* three node-bound techniques raise.
Elements ==
    [kind : {"handle", "none", "string"}, hasSel : BOOLEAN,
     reacq : {"elem", "null", "raise"},
     native : BOOLEAN, forced : BOOLEAN, script : BOOLEAN,
     bbox : {"box", "null", "raise"}, mouse : BOOLEAN]

\* The isinstance(element, str) and page and selector branch is taken.
Reacquires(el) == el.kind = "string" /\ el.hasSel

\* After the entry block `element` is an object with click/evaluate/bounding_box.
IsHandle(el) == el.kind = "handle" \/ (Reacquires(el) /\ el.reacq = "elem")

TechniqueSwapped(a) ==
    IF a = 0 THEN "native" ELSE IF a = 1 THEN "forced"
    ELSE IF a = 2 THEN "coord" ELSE "script"

\* The technique the loop body picks for `attempt` (0-based).
Technique(a) ==
    IF a = 0 THEN "native" ELSE IF a = 1 THEN "forced"
    ELSE IF a = 2 THEN "script" ELSE "coord"

TryTechniqueNoBoxTest(el, a) ==
    LET t == Technique(a) IN
    IF ~IsHandle(el) THEN "fault"
    ELSE IF t = "native" THEN (IF el.native THEN "clicked" ELSE "fault")
    ELSE IF t = "forced" THEN (IF el.forced THEN "clicked" ELSE "fault")
    ELSE IF t = "script" THEN (IF el.script THEN "clicked" ELSE "fault")
    ELSE IF el.bbox = "raise" THEN "fault"
    ELSE IF el.mouse THEN "clicked" ELSE "fault"

\* One pass of the loop body: "clicked" (the branch reaches return True),
\* "fault" (a call of the branch raised; on None or a bare str every call is an
\* AttributeError), "nobox" (bounding_box() gave None: the branch does nothing).
TryTechnique(el, a) ==
    LET t == Technique(a) IN
    IF ~IsHandle(el) THEN "fault"
    ELSE IF t = "native" THEN (IF el.native THEN "clicked" ELSE "fault")
    ELSE IF t = "forced" THEN (IF el.forced THEN "clicked" ELSE "fault")
    ELSE IF t = "script" THEN (IF el.script THEN "clicked" ELSE "fault")
    ELSE IF el.bbox = "raise" THEN "fault"
    ELSE IF el.bbox = "null" THEN "nobox"
    ELSE IF el.mouse THEN "clicked" ELSE "fault"

CatchesExceptCoord(a) == a < 3

\* A fault of loop pass `a` is caught inside retry_click: by the inner
\* `except Exception: pass` for the forced click, by the loop's
\* `except Exception as e` for every pass.
Catches(a) == TRUE

\* The loop `for attempt in range(max_attempts)` from pass a on, as a value:
\* "True", "False", or "raised" when a fault leaves the function.
RECURSIVE ClickLoop(_, _, _)
ClickLoop(el, a, max) ==
    IF a >= max THEN "False"
    ELSE LET o == TryTechnique(el, a) IN
         IF o = "clicked" THEN "True"
         ELSE IF o = "fault" /\ ~Catches(a) THEN "raised"
         ELSE ClickLoop(el, a + 1, max)

\* retry_click(element, page, selector, max_attempts) as a value.
RetryClick(el, max) ==
    IF Reacquires(el) /\ el.reacq # "elem" THEN "False"
    ELSE ClickLoop(el, 0, max)

\* --- retry_click step by step (SpecClick)
ClickIdle ==
    /\ ckElem = [kind |-> "none", hasSel |-> FALSE, reacq |-> "null",
                 native |-> FALSE, forced |-> FALSE, script |-> FALSE,
                 bbox |-> "null", mouse |-> FALSE]
    /\ ckMax = 0 /\ ckPc = "idle" /\ ckAttempt = 0 /\ ckCalls = <<>> /\ ckRet = "none"

\* Lines 211-220: a str element is looked up again through the selector.
ClickEntry ==
    /\ ckPc = "entry"
    /\ IF Reacquires(ckElem) /\ ckElem.reacq # "elem"
       THEN ckPc' = "returned" /\ ckRet' = "False"
       ELSE ckPc' = "loop" /\ ckRet' = ckRet
    /\ UNCHANGED <<ckElem, ckMax, ckAttempt, ckCalls>>
    /\ UNCHANGED <<seqVars, pageVars, exportVars, pollRes, resolveVars,
                   reportVars, traceVars>>

\* Lines 222-254: one pass of the loop.
ClickAttempt ==
    /\ ckPc = "loop" /\ ckAttempt < ckMax
    /\ LET o == TryTechnique(ckElem, ckAttempt) IN
       /\ ckCalls' = Append(ckCalls, Technique(ckAttempt))
       /\ IF o = "clicked"
          THEN ckPc' = "returned" /\ ckRet' = "True" /\ ckAttempt' = ckAttempt
          ELSE IF o = "fault" /\ ~Catches(ckAttempt)
          THEN ckPc' = "returned" /\ ckRet' = "raised" /\ ckAttempt' = ckAttempt
          ELSE ckPc' = "loop" /\ ckRet' = ckRet /\ ckAttempt' = ckAttempt + 1
    /\ UNCHANGED <<ckElem, ckMax>>
    /\ UNCHANGED <<seqVars, pageVars, exportVars, pollRes, resolveVars,
                   reportVars, traceVars>>

\* Line 256: the loop ran out.
ClickExhausted ==
    /\ ckPc = "loop" /\ ckAttempt >= ckMax
    /\ ckPc' = "returned" /\ ckRet' = "False"
    /\ UNCHANGED <<ckElem, ckMax, ckAttempt, ckCalls>>
    /\ UNCHANGED <<seqVars, pageVars, exportVars, pollRes, resolveVars,
                   reportVars, traceVars>>

InitClick ==
    /\ ckElem \in Elements
    /\ ckMax \in 0..MaxClickAttempts
    /\ ckPc = "entry" /\ ckAttempt = 0 /\ ckCalls = <<>> /\ ckRet = "none"

\* ================================================== the page's layer list
\* One node matching 'li .sc-KxFZn.hoverable', as far as the program reads it:
\* has3d    innerText.toLowerCase() includes '- 3d' or ' 3d'
\* hasName  innerText.toLowerCase() includes original_filename.lower()
\* spinner  querySelector('svg[style*="animation"], svg.animate-spin') is not null
\* mesh     querySelector('svg path[d*="8.127"], svg[class^="sc-evzXkX"], ...')
\* check    querySelector('svg path[d*="M13.5"], svg path[d*="l.475"]')
Rows == [has3d : BOOLEAN, hasName : BOOLEAN, spinner : BOOLEAN,
         mesh : BOOLEAN, check : BOOLEAN]

RowLists == UNION {[1..n -> Rows] : n \in 0..MaxRows}

NotReady == [ready |-> FALSE, row |-> 0]

RECURSIVE ScanReadyIgnoringSpinner(_, _)
ScanReadyIgnoringSpinner(rs, i) ==
    IF i > Len(rs) THEN NotReady
    ELSE IF ~rs[i].has3d THEN ScanReadyIgnoringSpinner(rs, i + 1)
    ELSE IF rs[i].mesh \/ rs[i].check THEN [ready |-> TRUE, row |-> i]
    ELSE ScanReadyIgnoringSpinner(rs, i + 1)

\* The `for (const row of rows)` loop of _layer_ready_and_row from row i on.
RECURSIVE ScanReady(_, _)
ScanReady(rs, i) ==
    IF i > Len(rs) THEN NotReady
    ELSE IF ~rs[i].has3d THEN ScanReady(rs, i + 1)
    ELSE IF rs[i].spinner THEN ScanReady(rs, i + 1)
    ELSE IF rs[i].mesh \/ rs[i].check THEN [ready |-> TRUE, row |-> i]
    ELSE ScanReady(rs, i + 1)

LayerReadyAndRowNoSpinnerTest(b, rs) ==
    IF b THEN NotReady ELSE ScanReadyIgnoringSpinner(rs, 1)

LayerReadyAndRowNoBannerTest(b, rs) == ScanReady(rs, 1)

\* _layer_ready_and_row: the script evaluated in the page, on banner b and
\* layer list rs; row is the index of result.row, 0 for null.
LayerReadyAndRow(b, rs) ==
    IF b THEN NotReady ELSE ScanReady(rs, 1)

\* The predicate _wait_until_layer_ready polls, for the row el.
WaitUntilLayerReadyPred(b, el) ==
    IF b THEN FALSE
    ELSE IF el.spinner THEN FALSE
    ELSE el.has3d /\ (el.mesh \/ el.check)

NewLayerPredicateAnyCount(rs) ==
    \E i \in 1..Len(rs) : rs[i].has3d \/ ~rs[i].hasName

\* The predicate _wait_for_new_layer polls (lines 954-964).
NewLayerPredicate(rs) ==
    IF Len(rs) < 2 THEN FALSE
    ELSE \E i \in 1..Len(rs) : rs[i].has3d \/ ~rs[i].hasName

\* Lines 971-978: the first row from i on whose label has a 3-D marker, 0 if none.
RECURSIVE First3dRow(_, _)
First3dRow(rs, i) ==
    IF i > Len(rs) THEN 0
    ELSE IF rs[i].has3d THEN i
    ELSE First3dRow(rs, i + 1)

\* Lines 981-987: the first row from i on whose label does not contain the
\* original file name, 0 if none.
RECURSIVE FirstOtherRow(_, _)
FirstOtherRow(rs, i) ==
    IF i > Len(rs) THEN 0
    ELSE IF ~rs[i].hasName THEN i
    ELSE FirstOtherRow(rs, i + 1)

\* Lines 970-990 of _wait_for_new_layer on a layer list whose labels are
\* readable: the row it returns, 0 for None.
SelectNewLayer(rs) ==
    IF First3dRow(rs, 1) # 0 THEN First3dRow(rs, 1) ELSE FirstOtherRow(rs, 1)

\* --- one evaluation of a predicate on an arbitrary page (SpecPoll)
PollIdle == pollRes = [kind |-> "none", ready |-> FALSE, row |-> 0]

PollLayerReady ==
    /\ pollRes.kind = "none"
    /\ pollRes' = [kind |-> "layer_ready"] @@ LayerReadyAndRow(banner, rows)
    /\ UNCHANGED <<banner, rows>>
    /\ UNCHANGED <<seqVars, pageAlive, exportVars, clickVars, resolveVars,
                   reportVars, traceVars>>

PollWaitUntilLayerReady ==
    /\ pollRes.kind = "none"
    /\ \E i \in 1..Len(rows) :
         pollRes' = [kind |-> "wait_until",
                     ready |-> WaitUntilLayerReadyPred(banner, rows[i]), row |-> i]
    /\ UNCHANGED <<banner, rows>>
    /\ UNCHANGED <<seqVars, pageAlive, exportVars, clickVars, resolveVars,
                   reportVars, traceVars>>

PollNewLayer ==
    /\ pollRes.kind = "none"
    /\ pollRes' = [kind |-> "new_layer", ready |-> NewLayerPredicate(rows),
                   row |-> IF NewLayerPredicate(rows) THEN SelectNewLayer(rows) ELSE 0]
    /\ UNCHANGED <<banner, rows>>
    /\ UNCHANGED <<seqVars, pageAlive, exportVars, clickVars, resolveVars,
                   reportVars, traceVars>>

\* The target application changes what the next evaluation will read.
PollPageChange ==
    /\ pollRes.kind # "none"
    /\ \/ banner' = ~banner /\ rows' = rows
       \/ \E i \in 1..Len(rows) :
            /\ banner' = banner
            /\ \/ rows' = [rows EXCEPT ![i].spinner = ~@]
               \/ rows' = [rows EXCEPT ![i].mesh = ~@]
    /\ pollRes' = [kind |-> "none", ready |-> FALSE, row |-> 0]
    /\ UNCHANGED <<seqVars, pageAlive, exportVars, clickVars, resolveVars,
                   reportVars, traceVars>>

InitPoll ==
    /\ banner \in BOOLEAN
    /\ rows \in RowLists
    /\ PollIdle

\* ================================= resolution of "Start in Studio"
\* What el.text_content() gives for one element matched by
\* 'h1, h2, h3, h4, h5, h6, p, span, div, button, a', relative to the label:
\*   exact       the label itself
\*   padded      the label with white space around it
\*   short       a text that contains the label, is not the label, and has
\*               fewer than 30 characters after strip()
\*   long        a text that contains the label and has 30 characters or more
\*   other       a non-empty text without the label
\*   blank       None, the empty string, or white space only
\*   unreadable  text_content() raises
DomTexts == {"exact", "padded", "short", "long", "other", "blank", "unreadable"}

\* The page as the resolution reads it.  els: the matched elements in document
\* order; lateExact: when the script of lines 374-419 runs, an a, button or
\* div[role="button"] has the label as its trimmed textContent; cards: some
\* element matches '.card, [class*="card"], [class*="Card"]'; images: some
\* img has a button, a or div[role="button"] under its parent.
Doms == [els : UNION {[1..n -> DomTexts] : n \in 0..MaxTexts},
         lateExact : BOOLEAN, cards : BOOLEAN, images : BOOLEAN]

\* text.strip() as far as the tests of lines 343-367 can tell.
Strip(t) == IF t = "padded" THEN "exact" ELSE t

\* Lines 340-346: the element is entered in `texts`.
Listed(t) == t \notin {"blank", "unreadable"}

\* Lines 352-362: the first element of `texts` from i on whose stripped text
\* equals the label, 0 if none.
RECURSIVE FirstExact(_, _)
FirstExact(els, i) ==
    IF i > Len(els) THEN 0
    ELSE IF Listed(els[i]) /\ Strip(els[i]) = "exact" THEN i
    ELSE FirstExact(els, i + 1)

\* Lines 366-370: the first element of `texts` from i on whose stripped text
\* contains the label and has fewer than 30 characters, 0 if none.
RECURSIVE FirstContaining(_, _)
FirstContaining(els, i) ==
    IF i > Len(els) THEN 0
    ELSE IF Listed(els[i]) /\ Strip(els[i]) \in {"exact", "short"} THEN i
    ELSE FirstContaining(els, i + 1)

\* The script of lines 374-419.  With a card on the page it evaluates
\* firstCard.querySelector('*:contains("Start in Studio")'); ':contains' is
\* not a CSS selector, so querySelector throws and page.evaluate raises.
ScriptClick(d) ==
    IF d.lateExact THEN "script_exact"
    ELSE IF d.cards THEN "script_raise"
    ELSE IF d.images THEN "script_image"
    ELSE "script_none"

ScriptReadOnly(by, d) == FALSE

\* The look-up itself clicks in the page.  The passes over `texts` (lines
\* 337-370) only read.  The script of lines 374-419 calls click() on the
\* element it settles on (lines 386, 405, 415) unless it throws first or finds
\* nothing; when it returns, the script of lines 429-451 dispatches a click on
\* the first node whose textContent includes 'Studio', which a text that
\* contains the label has.
ResolutionClicks(by, d) ==
    \/ by \in {"script_exact", "script_image"}
    \/ by = "script_none" /\ \E i \in 1..Len(d.els) : d.els[i] = "long"

NoResolution == [by |-> "none", idx |-> 0, script |-> FALSE, clicks |-> FALSE]

ResolveContainsFirst(d) ==
    IF FirstContaining(d.els, 1) # 0
    THEN [by |-> "contains", idx |-> FirstContaining(d.els, 1), script |-> FALSE,
          clicks |-> ResolutionClicks("contains", d)]
    ELSE IF FirstExact(d.els, 1) # 0
    THEN [by |-> "exact", idx |-> FirstExact(d.els, 1), script |-> FALSE,
          clicks |-> ResolutionClicks("exact", d)]
    ELSE [by |-> ScriptClick(d), idx |-> 0, script |-> TRUE,
          clicks |-> ResolutionClicks(ScriptClick(d), d)]

\* Lines 337-451: by which strategy the button is resolved, which element of
\* d.els `button` then is (0: button stays None), whether the script ran, and
\* whether the look-up clicked in the page.
ResolveStartInStudio(d) ==
    IF FirstExact(d.els, 1) # 0
    THEN [by |-> "exact", idx |-> FirstExact(d.els, 1), script |-> FALSE,
          clicks |-> ResolutionClicks("exact", d)]
    ELSE IF FirstContaining(d.els, 1) # 0
    THEN [by |-> "contains", idx |-> FirstContaining(d.els, 1), script |-> FALSE,
          clicks |-> ResolutionClicks("contains", d)]
    ELSE [by |-> ScriptClick(d), idx |-> 0, script |-> TRUE,
          clicks |-> ResolutionClicks(ScriptClick(d), d)]

\* --- one resolution on an arbitrary page (SpecResolve)
ResolveIdle ==
    /\ dom = [els |-> <<>>, lateExact |-> FALSE, cards |-> FALSE, images |-> FALSE]
    /\ resolved = NoResolution

ResolveButton ==
    /\ resolved.by = "none"
    /\ resolved' = ResolveStartInStudio(dom)
    /\ UNCHANGED dom
    /\ UNCHANGED <<seqVars, pageVars, exportVars, clickVars, pollRes, reportVars,
                   traceVars>>

InitResolve ==
    /\ dom \in Doms
    /\ resolved = NoResolution

\* ============================================ perform_button_sequence
ButtonsToClickExclusive(withPrompt) ==
    IF withPrompt
    THEN << [text |-> "New file",        delay |-> 4000, maximize_after |-> FALSE],
            [text |-> "Start in Studio", delay |-> 4000, maximize_after |-> TRUE],
            [text |-> "prompt_generate", delay |-> 3000, maximize_after |-> FALSE],
            [text |-> "options_button",  delay |-> 6000, maximize_after |-> FALSE] >>
    ELSE << [text |-> "New file",        delay |-> 4000, maximize_after |-> FALSE],
            [text |-> "Start in Studio", delay |-> 4000, maximize_after |-> TRUE],
            [text |-> "Upload an image", delay |-> 4000, maximize_after |-> FALSE],
            [text |-> "options_button",  delay |-> 6000, maximize_after |-> FALSE] >>

\* buttons_to_click (lines 280-294).  No step of either list is named
\* "Create" or "plus_button", so the branches of lines 306-309, 462-550 and
\* 899-901 are never taken.
ButtonsToClick(withPrompt) ==
    IF withPrompt
    THEN << [text |-> "New file",        delay |-> 4000, maximize_after |-> FALSE],
            [text |-> "Start in Studio", delay |-> 4000, maximize_after |-> TRUE],
            [text |-> "Upload an image", delay |-> 4000, maximize_after |-> FALSE],
            [text |-> "prompt_generate", delay |-> 3000, maximize_after |-> FALSE],
            [text |-> "options_button",  delay |-> 6000, maximize_after |-> FALSE] >>
    ELSE << [text |-> "New file",        delay |-> 4000, maximize_after |-> FALSE],
            [text |-> "Start in Studio", delay |-> 4000, maximize_after |-> TRUE],
            [text |-> "Upload an image", delay |-> 4000, maximize_after |-> FALSE],
            [text |-> "options_button",  delay |-> 6000, maximize_after |-> FALSE] >>

NumSteps == Len(ButtonsToClick(prompt))

\* button_text of the step the loop is at.
ButtonText == ButtonsToClick(prompt)[stepIndex].text

\* Ways a step ends without having done its work, the session still usable.
InternalFailures == {"not_found", "fallback", "click_failed", "sub_error", "exception"}

\* The handles the sequencer's queries can return, by how they answer a click.
SeqElements ==
    {el \in Elements : el.kind = "handle" /\ ~el.hasSel /\ el.reacq = "null"
                       /\ el.forced = el.native /\ el.mouse /\ el.bbox # "raise"}

AfterStepStopOnFailure(o) == IF o \in InternalFailures THEN "report" ELSE "seq"

AfterStepAbortOnTransport(o) == IF o = "transport" THEN "report" ELSE "seq"

\* Where control goes when a step ended with outcome o: every branch of the
\* loop body ends in `continue` or falls off its end, and the handler of
\* lines 933-938 swallows whatever was raised, so the for loop goes on.
AfterStep(o) == "seq"

FinishStep(o) ==
    /\ outcome' = o
    /\ anyFailed' = (anyFailed \/ o \in InternalFailures)
    /\ stepIndex' = stepIndex + 1
    /\ pc' = AfterStep(o)

\* Outcome of `click_success = await retry_click(button)` and what follows it
\* on the generic path (lines 895-931).
ClickOutcome(el) ==
    LET r == RetryClick(el, DefaultClickAttempts) IN
    IF r = "True" THEN "ok" ELSE IF r = "False" THEN "click_failed" ELSE "exception"

AtStepAnyOrder(text) == pc = "seq" /\ stepIndex \in 1..NumSteps

\* Line 296, `for button_info in buttons_to_click`: the step the loop body
\* runs is the one the loop is at.
AtStep(text) == pc = "seq" /\ stepIndex \in 1..NumSteps /\ ButtonText = text

seqFrame == <<prompt, transportStep, seqPath, mainPath, status, outputWritten>>

\* The pages the run meets at the "Start in Studio" step.
RunDoms == [els : {<<>>} \cup {<<t>> : t \in DomTexts},
            lateExact : BOOLEAN, cards : BOOLEAN, images : BOOLEAN]

\* The sequencer's latest activations of an element handle.  at: the step
\* whose code clicked; from: the step in which the clicked handle was
\* resolved; age: the largest number of clicks and awaited waits
\* (wait_for_timeout, wait_for_selector, wait_for_function) between the
\* resolution of a handle and a click on it, over the clicks of the latest
\* program step that clicked.
NoActivation == [at |-> 0, from |-> 0, age |-> 0]

Activation(from, age) == [at |-> stepIndex, from |-> from, age |-> age]

\* What a step captures of the page when it looks for its element: a
\* "screenshot" (line 320 before the look-up, line 883 after it came back
\* empty) and the "markup", page.content() written to a file (lines 333-335,
\* 886-888).
ShotOnly == {"screenshot"}
ShotAndMarkup == {"screenshot", "markup"}

\* The loop body is entered for the step `text`; shots is what the step
\* captures of the page by the time it ends.
EntersStep(text, shots) ==
    /\ started' = Append(started, text)
    /\ snapshot' = shots

ButtonKept(old) == old

\* Line 323: `button = None` before a step looks for its element.
ButtonAtStepStart(old) == 0

\* A call of the step raised before line 323 (the screenshot of line 320; with
\* the session gone it always does): handler of lines 933-938.
StepRaises ==
    /\ FinishStep(IF ~pageAlive THEN "transport" ELSE "exception")
    /\ UNCHANGED <<button, lastAct, menuOpen, genClicked, exportCalled>>

\* `if not button: ... continue` (lines 574-576, 625-627, 879-893).
StepNotFound ==
    /\ FinishStep("not_found")
    /\ button' = 0
    /\ UNCHANGED <<lastAct, menuOpen, genClicked, exportCalled>>

\* A step whose text has no special case ("New file"): lines 302-323, 858-931.
\* debug: the screenshot and page.content() of lines 882-888 return; a fault
\* of either is logged (line 890) and the markup is not written.
StepGeneric ==
    /\ AtStep("New file")
    /\ \E fault \in BOOLEAN, found \in BOOLEAN, el \in SeqElements, debug \in BOOLEAN :
         LET b == IF found THEN stepIndex ELSE ButtonAtStepStart(button) IN
         IF ~pageAlive \/ fault THEN StepRaises /\ EntersStep("New file", {})
         ELSE IF b = 0
         THEN /\ StepNotFound
              /\ EntersStep("New file", IF debug THEN ShotAndMarkup ELSE ShotOnly)
         ELSE /\ FinishStep(ClickOutcome(el))
              /\ button' = b
              /\ lastAct' = Activation(b, 0)
              /\ EntersStep("New file", ShotOnly)
              /\ UNCHANGED <<menuOpen, genClicked, exportCalled>>
    /\ UNCHANGED <<seqFrame, pageVars, exportVars, clickVars, pollRes, resolveVars,
                   reportVars, traceVars>>

\* "Start in Studio": lines 326-459, then the generic click of lines 895-931.
\* With `button` still None after the two passes over `texts` the script
\* clicks in the page and the step ends (line 459).  Otherwise the handle is
\* clicked, and after a successful click it is clicked again (lines 910-913)
\* once that click and wait_for_timeout(1000) have passed.
StepStartInStudio ==
    /\ AtStep("Start in Studio")
    /\ \E fault \in BOOLEAN, d \in RunDoms, el \in SeqElements :
         LET r == ResolveStartInStudio(d)
             b == IF r.idx # 0 THEN stepIndex ELSE ButtonAtStepStart(button)
             first == RetryClick(el, DefaultClickAttempts)
         IN
         IF ~pageAlive \/ fault THEN StepRaises /\ EntersStep("Start in Studio", {})
         ELSE IF b = 0
         THEN /\ FinishStep(IF r.by = "script_raise" THEN "exception" ELSE "fallback")
              /\ button' = 0
              /\ EntersStep("Start in Studio", ShotAndMarkup)
              /\ UNCHANGED <<lastAct, menuOpen, genClicked, exportCalled>>
         ELSE /\ FinishStep(IF first = "True" THEN "ok" ELSE "click_failed")
              /\ button' = b
              /\ lastAct' = Activation(b, IF first = "True" THEN 2 ELSE 0)
              /\ EntersStep("Start in Studio", ShotAndMarkup)
              /\ UNCHANGED <<menuOpen, genClicked, exportCalled>>
    /\ UNCHANGED <<seqFrame, pageVars, exportVars, clickVars, pollRes, resolveVars,
                   reportVars, traceVars>>

\* "Upload an image": lines 553-602.
StepUpload ==
    /\ AtStep("Upload an image")
    /\ \E fault \in BOOLEAN, found \in BOOLEAN, el \in SeqElements, chooser \in BOOLEAN :
         LET b == IF found THEN stepIndex ELSE ButtonAtStepStart(button) IN
         IF ~pageAlive \/ fault THEN StepRaises /\ EntersStep("Upload an image", {})
         ELSE IF b = 0 THEN StepNotFound /\ EntersStep("Upload an image", ShotOnly)
         ELSE /\ FinishStep(IF RetryClick(el, DefaultClickAttempts) = "True" /\ chooser
                            THEN "ok" ELSE "sub_error")
              /\ button' = b
              /\ lastAct' = Activation(b, 0)
              /\ EntersStep("Upload an image", ShotOnly)
              /\ UNCHANGED <<menuOpen, genClicked, exportCalled>>
    /\ UNCHANGED <<seqFrame, pageVars, exportVars, clickVars, pollRes, resolveVars,
                   reportVars, traceVars>>

\* "prompt_generate": lines 709-856.  The step keeps its handles in locals of
\* its own (textarea, generate_btn, add_btn, close_btn) and leaves `button`
\* None.  close: the close button is not found; its click fails; the modal
\* closes after one click; or wait_for_function(timeout=1000) runs out and the
\* same close_btn is clicked again (lines 814-817).
StepPrompt ==
    /\ AtStep("prompt_generate")
    /\ \E fault \in BOOLEAN,
          stage \in {"no_textarea", "fill_fault", "no_generate", "no_add", "added"},
          close \in {"none", "unclicked", "closed", "reclick"} :
         IF ~pageAlive \/ fault THEN StepRaises /\ EntersStep("prompt_generate", {})
         ELSE /\ EntersStep("prompt_generate", ShotOnly)
              /\ FinishStep(IF stage \in {"no_textarea", "no_generate"} THEN "not_found"
                            ELSE IF stage \in {"fill_fault", "no_add"} THEN "sub_error"
                            ELSE "ok")
              /\ button' = ButtonAtStepStart(button)
              /\ lastAct' = IF stage \in {"no_textarea", "fill_fault", "no_generate"}
                            THEN lastAct
                            ELSE Activation(stepIndex,
                                   IF stage = "added" /\ close = "reclick" THEN 2 ELSE 0)
              /\ UNCHANGED <<menuOpen, genClicked, exportCalled>>
    /\ UNCHANGED <<seqFrame, pageVars, exportVars, clickVars, pollRes, resolveVars,
                   reportVars, traceVars>>

\* "options_button", lines 605-669: the three-dots button is looked up, its
\* row hovered (wait_for_timeout(250) when the row has a box), the button
\* clicked once, and menu_open tells whether a menu item showed within 1.5 s.
StepOptions ==
    /\ AtStep("options_button")
    /\ \E fault \in BOOLEAN, found \in BOOLEAN, hover \in BOOLEAN, open \in BOOLEAN :
         LET b == IF found THEN stepIndex ELSE ButtonAtStepStart(button) IN
         IF ~pageAlive \/ fault THEN StepRaises /\ EntersStep("options_button", {})
         ELSE IF b = 0 THEN StepNotFound /\ EntersStep("options_button", ShotOnly)
         ELSE /\ pc' = "opt_menu"
              /\ outcome' = "running"
              /\ button' = b
              /\ EntersStep("options_button", ShotOnly)
              /\ lastAct' = Activation(b, IF hover THEN 1 ELSE 0)
              /\ menuOpen' = open
              /\ UNCHANGED <<stepIndex, anyFailed, genClicked, exportCalled>>
    /\ UNCHANGED <<seqFrame, pageVars, exportVars, clickVars, pollRes, resolveVars,
                   reportVars, traceVars>>

\* _handle_generation_and_export is called after the click on 'Generate 3D':
\* line 680 is in the branch that found the item at the first query; the
\* branch that finds it after the second click on the button (lines 685-693)
\* has no such call.
CallsExport(gen) == gen = "found"

\* "options_button", lines 671-704.  gen: the 'Generate 3D' item is there at
\* the first query; there only after the button was clicked a second time
\* (tried when menu_open is false); or not there.  The second click on
\* `button` comes after the first click and the wait for the menu item.
StepOptionsGenerate ==
    /\ pc = "opt_menu"
    /\ \E fault \in BOOLEAN, gen \in {"found", "late", "missing"} :
         LET clicked == gen = "found" \/ (gen = "late" /\ ~menuOpen) IN
         IF ~pageAlive \/ fault
         THEN /\ FinishStep(IF ~pageAlive THEN "transport" ELSE "exception")
              /\ menuOpen' = FALSE
              /\ UNCHANGED <<button, lastAct, genClicked, exportCalled>>
              /\ UNCHANGED <<snapshot, started>>
         ELSE IF clicked /\ CallsExport(gen)
         THEN /\ pc' = "wait_layer"
              /\ genClicked' = TRUE
              /\ exportCalled' = TRUE
              /\ lastAct' = IF gen = "found" THEN Activation(stepIndex, 0)
                            ELSE Activation(button, lastAct.age + 2)
              /\ menuOpen' = FALSE
              /\ UNCHANGED <<stepIndex, outcome, anyFailed, button, snapshot, started>>
         ELSE /\ FinishStep(IF clicked THEN "late" ELSE "not_found")
              /\ genClicked' = (genClicked \/ clicked)
              /\ lastAct' = IF menuOpen THEN lastAct
                            ELSE Activation(button, lastAct.age + 2)
              /\ menuOpen' = FALSE
              /\ UNCHANGED <<button, exportCalled, snapshot, started>>
    /\ UNCHANGED <<seqFrame, pageVars, exportVars, clickVars, pollRes, resolveVars,
                   reportVars, traceVars>>

\* Line 941: return result_data, back in main at line 1412.
SeqReturn ==
    /\ pc = "seq" /\ stepIndex > NumSteps
    /\ pc' = "report"
    /\ mainPath' = seqPath
    /\ UNCHANGED <<prompt, stepIndex, outcome, anyFailed, transportStep, seqPath,
                   status, outputWritten, stepVars, pageVars, exportVars, clickVars,
                   pollRes, resolveVars, reportVars, traceVars>>

\* ======================= _handle_generation_and_export, _wait_for_new_layer
InExport == pc \in {"wait_layer", "select_row", "ex_check", "ex_backoff",
                    "ex_hover", "ex_menu", "ex_download", "ex_post", "ex_return"}

\* The options step ends without an export (lines 1215-1217, or the handler
\* of line 700 when the call raised); line 703, continue.
EndOptionsStep(o) ==
    /\ FinishStep(o)
    /\ UNCHANGED <<seqFrame, stepVars, pageVars, clickVars, pollRes, resolveVars,
                   reportVars, traceVars>>

WaitRaisesNoDeadline(alive, sat) == ~alive

\* page.wait_for_function(..., timeout=max_wait_ms) of lines 952-968 raises:
\* the session is gone, or the deadline passes with the predicate false.
WaitRaises(alive, sat) == ~alive \/ ~sat

StartsExportAlways(layer) == TRUE

\* Lines 1215-1217: `if not new_layer: return result_data`; the export loop is
\* entered only with a row.
StartsExport(layer) == layer # 0

\* Lines 1214-1226 with new_layer = layer: without a row the call returns {}
\* and the options step ends; with one, the row is clicked (result ignored)
\* and the export loop starts with layer_el the handle passed in.
HandleNewLayer(layer) ==
    /\ newLayer' = layer
    /\ IF StartsExport(layer)
       THEN /\ pc' = "ex_check"
            /\ attempt' = 1
            /\ UNCHANGED <<prompt, stepIndex, outcome, anyFailed, transportStep,
                           seqPath, mainPath, status, outputWritten, stepVars,
                           pageVars, clickVars, pollRes, resolveVars,
                           reportVars, traceVars>>
       ELSE /\ attempt' = attempt
            /\ EndOptionsStep("sub_error")
    /\ UNCHANGED <<layerEl, notReady, bodyFailed, exportPath, saved, exportRet, sawBanner>>

\* page.wait_for_function resolves: the predicate held at a poll.
WaitForNewLayerSatisfied ==
    /\ pc = "wait_layer" /\ pageAlive /\ NewLayerPredicate(rows)
    /\ pc' = "select_row"
    /\ UNCHANGED <<prompt, stepIndex, outcome, anyFailed, transportStep, seqPath,
                   mainPath, status, outputWritten, stepVars, pageVars, exportVars,
                   clickVars, pollRes, resolveVars, reportVars, traceVars>>

\* page.wait_for_function raises; the handler of lines 988-990 returns None.
WaitForNewLayerTimeout ==
    /\ pc = "wait_layer" /\ WaitRaises(pageAlive, NewLayerPredicate(rows))
    /\ layerTimeout' = TRUE
    /\ HandleNewLayer(0)

\* Lines 970-990: the rows are queried again and one is picked.
WaitForNewLayerSelect ==
    /\ pc = "select_row"
    /\ layerTimeout' = layerTimeout
    /\ HandleNewLayer(IF pageAlive THEN SelectNewLayer(rows) ELSE 0)

\* ================================================= _export_layer_as_glb
AfterNotReadySame(a) == a

\* The attempt number after a `continue` of attempt a (the for loop of line 1072).
AfterNotReady(a) == a + 1

\* layer_el once its attempt is over: the row resolved by an attempt is, in
\* every later attempt, a handle of an earlier one.
Aged(h) == IF h = "fresh" THEN "stale" ELSE h

ContinueLoopRaisesAtEnd(next) ==
    /\ layerEl' = Aged(layerEl)
    /\ IF next <= MaxExportAttempts
       THEN pc' = "ex_check" /\ attempt' = next /\ exportRet' = exportRet
       ELSE pc' = "ex_return" /\ attempt' = attempt /\ exportRet' = "raised"

\* `continue`, or the handler of line 1203, in an attempt: the loop goes to its
\* next value, or past range(1, max_attempts + 1) to lines 1206-1207, which
\* return result_data.
ContinueLoop(next) ==
    /\ layerEl' = Aged(layerEl)
    /\ IF next <= MaxExportAttempts
       THEN pc' = "ex_check" /\ attempt' = next /\ exportRet' = exportRet
       ELSE pc' = "ex_return" /\ attempt' = attempt /\ exportRet' = "exhausted"

exportFrame == <<prompt, stepIndex, outcome, anyFailed, transportStep, seqPath,
                 mainPath, status, outputWritten, stepVars, pageVars, clickVars,
                 pollRes, resolveVars, reportVars, traceVars>>

\* _try_get_ready_row (lines 1060-1070): a fault of the evaluation is swallowed
\* and reads as "no ready row".
TryGetReadyRow == IF pageAlive THEN LayerReadyAndRow(banner, rows) ELSE NotReady

AfterCheckAlwaysHover(ready) == "ex_hover"

\* Lines 1076-1081: without a ready row the attempt waits and continues; with
\* one, layer_el becomes that row and the attempt goes on to the hover.
AfterCheck(ready) == IF ready THEN "ex_hover" ELSE "ex_backoff"

\* Lines 1074-1081: the readiness check that opens every attempt.
ExportReadinessCheck ==
    /\ pc = "ex_check"
    /\ sawBanner' = (pageAlive /\ banner)
    /\ pc' = AfterCheck(TryGetReadyRow.ready)
    /\ notReady' = IF TryGetReadyRow.ready THEN notReady ELSE notReady + 1
    /\ layerEl' = IF TryGetReadyRow.ready THEN "fresh" ELSE layerEl
    /\ UNCHANGED <<newLayer, layerTimeout, attempt, bodyFailed, exportPath, saved,
                   exportRet>>
    /\ UNCHANGED exportFrame

\* Lines 1077-1085: wait_for_timeout(5000) and continue.  With the session gone
\* the wait raises inside the try, the handler of line 1082 waits again outside
\* any try, and that fault leaves _export_layer_as_glb.
ExportBackoff ==
    /\ pc = "ex_backoff"
    /\ sawBanner' = FALSE
    /\ IF pageAlive
       THEN ContinueLoop(AfterNotReady(attempt))
       ELSE /\ pc' = "ex_return" /\ attempt' = attempt /\ exportRet' = "raised"
            /\ layerEl' = layerEl
    /\ UNCHANGED <<newLayer, layerTimeout, notReady, bodyFailed, exportPath, saved>>
    /\ UNCHANGED exportFrame

\* Lines 1088-1095: hover the row layer_el; faults are swallowed.
ExportHover ==
    /\ pc = "ex_hover"
    /\ pc' = "ex_menu"
    /\ UNCHANGED exportVars
    /\ UNCHANGED exportFrame

\* Lines 1097-1157: the three-dots button is looked up inside layer_el and
\* clicked, then the Export entry and the GLB entry are looked up in the page.
\*   no_dots  no selector matches inside the row: wait 2 s, continue
\*   no_glb   no GLB entry: Escape, wait 5 s, continue
\*   fault    a query raised: handler of line 1203
\*   glb      the GLB entry is resolved
\* With the session gone the first query raises.
ExportMenu ==
    /\ pc = "ex_menu"
    /\ \E m \in {"no_dots", "no_glb", "fault", "glb"} :
         IF pageAlive /\ m = "glb"
         THEN /\ pc' = "ex_download"
              /\ UNCHANGED <<layerEl, attempt, exportRet, bodyFailed, sawBanner>>
         ELSE ContinueLoop(attempt + 1) /\ bodyFailed' = TRUE /\ sawBanner' = FALSE
    /\ UNCHANGED <<newLayer, layerTimeout, notReady, exportPath, saved>>
    /\ UNCHANGED exportFrame

RecordsPathBeforeSave(d) == d \in {"captured", "save_failed"}

\* result_data['exported_glb_path'] is assigned (line 1173) on the path on
\* which download.save_as returned.
RecordsPath(d) == d = "captured"

\* Lines 1159-1198: click GLB under page.expect_download(timeout=30000).
\*   captured     the download arrives and save_as(exported.glb) returns
\*   timeout      no download within 30 s
\*   save_failed  the download arrives and save_as raises
\* With the session gone expect_download raises and so does the wait of line
\* 1197 (handler of line 1203).
ExportDownload ==
    /\ pc = "ex_download"
    /\ \E d \in {"captured", "timeout", "save_failed"} :
         LET got == IF pageAlive THEN d ELSE "timeout" IN
         /\ saved' = (saved \/ got = "captured")
         /\ exportPath' = (exportPath \/ RecordsPath(got))
         /\ IF got = "captured"
            THEN /\ pc' = "ex_post"
                 /\ UNCHANGED <<layerEl, attempt, exportRet, bodyFailed, sawBanner>>
            ELSE ContinueLoop(attempt + 1) /\ bodyFailed' = TRUE /\ sawBanner' = FALSE
    /\ UNCHANGED <<newLayer, layerTimeout, notReady>>
    /\ UNCHANGED exportFrame

\* Lines 1200-1204: the screenshot after the export, then return result_data;
\* a fault of the screenshot goes to the handler of line 1203 and the loop
\* goes on.
ExportPostScreenshot ==
    /\ pc = "ex_post"
    /\ \E shot \in BOOLEAN :
         IF pageAlive /\ shot
         THEN /\ pc' = "ex_return" /\ exportRet' = "success"
              /\ UNCHANGED <<layerEl, attempt, bodyFailed, sawBanner>>
         ELSE ContinueLoop(attempt + 1) /\ bodyFailed' = TRUE /\ sawBanner' = FALSE
    /\ UNCHANGED <<newLayer, layerTimeout, notReady, exportPath, saved>>
    /\ UNCHANGED exportFrame

ReturnsOnlyExhausted(ret) == ret = "exhausted"

\* _export_layer_as_glb and _handle_generation_and_export return normally.
ReturnsNormally(ret) == ret \in {"success", "exhausted"}

\* Lines 680-683 and 700-704: back in the options step.  result_data.update
\* runs when the call returned; a fault that left the call is caught at line
\* 700 and nothing is copied.
ExportReturn ==
    /\ pc = "ex_return"
    /\ seqPath' = (seqPath \/ (ReturnsNormally(exportRet) /\ exportPath))
    /\ FinishStep(IF exportRet = "success" THEN "ok" ELSE "sub_error")
    /\ UNCHANGED <<prompt, transportStep, mainPath, status, outputWritten, stepVars,
                   pageVars, exportVars, clickVars, pollRes, resolveVars,
                   reportVars, traceVars>>

\* ================================================================= main
\* Lines 1240-1414, up to the call of perform_button_sequence.
\*   no_image  the prepared image file does not exist: actor.fail(), return
\*             (lines 1265-1271)
\*   fault     a call outside the login's try raised (reading the input,
\*             launching the browser, the wait of line 1334): handler of lines
\*             1444-1449, actor.fail()
\*   no_login  no credentials, or still on the auth page: no sequence is run
\*   login     perform_button_sequence is called
MainStart ==
    /\ pc = "main"
    /\ \E start \in {"no_image", "fault", "no_login", "login"} :
         /\ pc' = IF start = "login" THEN "seq"
                  ELSE IF start = "no_login" THEN "report" ELSE "done"
         /\ stepIndex' = IF start = "login" THEN 1 ELSE stepIndex
         /\ status' = IF start \in {"no_image", "fault"} THEN "failed" ELSE status
         /\ mainFault' = (start = "fault")
    /\ UNCHANGED <<prompt, outcome, anyFailed, transportStep, seqPath, mainPath,
                   outputWritten, stepVars, pageVars, exportVars, clickVars,
                   pollRes, resolveVars, traceVars>>

\* The actor input as _prepare_image_for_upload reads it.  url: imageUrl is
\* given; fetched: the GET succeeds and the saved file is not empty; base:
\* os.path.basename(image_url.split('?')[0]), being empty, a name without an
\* extension, a name with one, or the very name the download is saved under.
\* ".ext" stands for the extension guessed from the Content-Type.
ImageInputs ==
    [url : BOOLEAN, fetched : BOOLEAN,
     base : {"", "name", "name.ext", "downloaded_image.ext"}]

\* _prepare_image_for_upload (lines 43-119), its result (upload_path,
\* original_filename) with the path given by its base name.  A downloaded
\* image is saved as downloaded_image<ext> (line 88) whatever the URL's base
\* name was, and original_filename is that base name, "input<ext>" when it is
\* empty, with <ext> appended when it has no extension (lines 81-83); without
\* a usable download both are sample.png (lines 106-119).
PrepareImage(in) ==
    IF in.url /\ in.fetched
    THEN [path |-> "downloaded_image.ext",
          name |-> IF in.base = "" THEN "input.ext"
                   ELSE IF in.base = "name" THEN "name.ext" ELSE in.base]
    ELSE [path |-> "sample.png", name |-> "sample.png"]

\* Lines 1429-1434: the record main writes under 'OUTPUT', for the prepared
\* image img.  upload_path and original_filename are assigned once, at line
\* 1258, and no branch of the sequence depends on them.
OutputRecord(img) == [status |-> "success", originalFilename |-> img.name]

\* Line 589, file_chooser.set_files(upload_path): the name of the file the
\* upload step hands to the page.
UploadedName(img) == img.path

\* os.path.exists(exported_glb_path) at line 1425.
FileExists == saved

ReportsSuccessAlways(path, exists) == TRUE

\* Line 1425: `if exported_glb_path and os.path.exists(exported_glb_path)`.
ReportsSuccess(path, exists) == path /\ exists

\* Lines 1420-1449: the browser is closed and the run reports.  mainFault
\* marks the run whose report a raising call changed: one with an export to
\* report whose browser.close() or set_value raised.  close:
\* browser.close() returns (a raise goes to the handler of lines 1444-1449,
\* which calls actor.fail()); kv: actor.set_value('OUTPUT', output) returns
\* (a raise is logged by the handler of lines 1437-1438 and nothing follows).
MainReport ==
    /\ pc = "report"
    /\ pc' = "done"
    /\ \E close \in BOOLEAN, kv \in BOOLEAN :
         IF close /\ ReportsSuccess(mainPath, FileExists)
         THEN /\ status' = "success" /\ outputWritten' = kv
              /\ mainFault' = ~kv
         ELSE /\ status' = "failed" /\ outputWritten' = outputWritten
              /\ mainFault' = ReportsSuccess(mainPath, FileExists)
    /\ UNCHANGED <<prompt, stepIndex, outcome, anyFailed, transportStep, seqPath,
                   mainPath, stepVars, pageVars, exportVars, clickVars, pollRes,
                   resolveVars, traceVars>>

\* ====================================================== the target page
\* The page or browser session becomes unusable while the sequence runs.
PageDies ==
    /\ pageAlive
    /\ \/ pc = "seq" /\ stepIndex <= NumSteps
       \/ pc = "opt_menu"
       \/ InExport /\ pc # "ex_return"
    /\ pageAlive' = FALSE /\ banner' = FALSE /\ rows' = <<>>
    /\ transportStep' = stepIndex
    /\ UNCHANGED <<pc, prompt, stepIndex, outcome, anyFailed, seqPath, mainPath,
                   status, outputWritten, stepVars, exportVars, clickVars, pollRes,
                   resolveVars, reportVars, traceVars>>

\* Labels the application gives a layer row: the uploaded file's name, a name
\* with the 3-D marker, any other name.
AppLabels == {<<FALSE, TRUE>>, <<TRUE, FALSE>>, <<FALSE, FALSE>>}

\* The application changes its layer list or its banner while the program
\* waits: a row is inserted on top, a spinner or the ready icon of a row comes
\* or goes, the loading banner comes or goes.  The ready icon shown during a
\* run is the mesh icon; the check icon reads the same to the program
\* (hasMesh || hasCheck) and is covered by SpecPoll.
PageChanges ==
    /\ pageAlive /\ InExport /\ pc # "ex_return"
    /\ \/ /\ Len(rows) < MaxRows
          /\ \E l \in AppLabels, sp \in BOOLEAN :
               rows' = <<[has3d |-> l[1], hasName |-> l[2], spinner |-> sp,
                          mesh |-> FALSE, check |-> FALSE]>> \o rows
          /\ banner' = banner
       \/ \E i \in 1..Len(rows) :
            /\ \/ rows' = [rows EXCEPT ![i].spinner = ~@]
               \/ rows' = [rows EXCEPT ![i].mesh = ~@]
            /\ banner' = banner
       \/ banner' = ~banner /\ rows' = rows
    /\ UNCHANGED <<pageAlive, seqVars, exportVars, clickVars, pollRes, resolveVars,
                   reportVars, traceVars>>

\* ============================== one step, one upload, one export attempt
\* The loop body of a step, the file-chooser upload, the prompt step, the
\* options step, the wait for the new layer and one attempt of the export
\* loop, call by call.  `scen` fixes how the browser answers; `trace`
\* lists the operations the fragment performs on the page, in order.
Do(ops) == trace' = trace \o ops

\* --- a step on the generic path (lines 302-323, 326-459, 858-931)
\* text: the step; idle: the network goes idle within 5 s; shot: the
\* screenshot of line 320 returns; found: the look-up returns a handle; el:
\* how that handle answers a click; debug: the snapshot of lines 882-888
\* returns.
StepScenarios ==
    [frag : {"step"}, text : {"New file", "Start in Studio"}, idle : BOOLEAN,
     shot : BOOLEAN, found : BOOLEAN, el : SeqElements, debug : BOOLEAN]

\* button_info of the step named text.
StepInfo(text) ==
    CHOOSE b \in {ButtonsToClick(FALSE)[i] : i \in 1..Len(ButtonsToClick(FALSE))} :
        b.text = text

\* Lines 306-311: force_window_activation(page); its own handler (line 204)
\* swallows every fault.
TrFocus ==
    /\ tPc = "s_focus"
    /\ Do(<<"focus">>)
    /\ tPc' = "s_idle"
    /\ UNCHANGED scen
    /\ UNCHANGED <<seqVars, pageVars, exportVars, clickVars, pollRes, resolveVars,
                   reportVars>>

\* Lines 313-317: wait_for_load_state('networkidle', timeout=5000) in a try of
\* its own.
TrNetIdle ==
    /\ tPc = "s_idle"
    /\ Do(IF scen.idle THEN <<"netidle">> ELSE <<"netidle_timeout">>)
    /\ tPc' = "s_shot"
    /\ UNCHANGED scen
    /\ UNCHANGED <<seqVars, pageVars, exportVars, clickVars, pollRes, resolveVars,
                   reportVars>>

\* Line 320: the screenshot before the look-up; a fault goes to the handler of
\* lines 933-938.
TrScreenshot ==
    /\ tPc = "s_shot"
    /\ IF scen.shot
       THEN Do(<<"screenshot">>) /\ tPc' = "s_resolve"
       ELSE Do(<<>>) /\ tPc' = "raised"
    /\ UNCHANGED scen
    /\ UNCHANGED <<seqVars, pageVars, exportVars, clickVars, pollRes, resolveVars,
                   reportVars>>

AfterResolveAlwaysClick(text, found) == "s_click"

\* Lines 373 and 879: `if not button`.  With a handle the step goes on to the
\* click of line 903; without one "Start in Studio" runs its scripts and the
\* other steps take the snapshot of lines 882-888.
AfterResolve(text, found) ==
    IF found THEN "s_click"
    ELSE IF text = "Start in Studio" THEN "s_script" ELSE "s_debug"

\* Lines 323-370 and 858-876: the look-up.  "Start in Studio" first flashes
\* the window and writes the markup (lines 330-335).
TrResolve ==
    /\ tPc = "s_resolve"
    /\ Do((IF scen.text = "Start in Studio" THEN <<"flash_maximize", "markup">>
           ELSE <<>>)
          \o (IF scen.found THEN <<"resolved">> ELSE <<"unresolved">>))
    /\ tPc' = AfterResolve(scen.text, scen.found)
    /\ UNCHANGED scen
    /\ UNCHANGED <<seqVars, pageVars, exportVars, clickVars, pollRes, resolveVars,
                   reportVars>>

\* Lines 879-893: the snapshot of the page without the button, then continue.
TrNotFound ==
    /\ tPc = "s_debug"
    /\ Do(IF scen.debug THEN <<"screenshot", "markup">> ELSE <<>>)
    /\ tPc' = "skipped"
    /\ UNCHANGED scen
    /\ UNCHANGED <<seqVars, pageVars, exportVars, clickVars, pollRes, resolveVars,
                   reportVars>>

\* Lines 373-459: the scripts that click in the page, the window maximized
\* between them, then continue.
TrScript ==
    /\ tPc = "s_script"
    /\ Do(<<"script", "maximize", "wait2000", "script", "wait2000">>)
    /\ tPc' = "skipped"
    /\ UNCHANGED scen
    /\ UNCHANGED <<seqVars, pageVars, exportVars, clickVars, pollRes, resolveVars,
                   reportVars>>

AfterClickDelaysAnyway(text, r) ==
    IF text = "Start in Studio" THEN "s_second" ELSE "s_delay"

\* Lines 903-910: `if not click_success: continue`; after a click that
\* succeeded "Start in Studio" goes on to its second click, the other steps
\* to the post-delay.
AfterClick(text, r) ==
    IF r = "raised" THEN "raised"
    ELSE IF r = "False" THEN "click_failed"
    ELSE IF text = "Start in Studio" THEN "s_second" ELSE "s_delay"

\* Lines 895-907: click_success = await retry_click(button).
TrClick ==
    /\ tPc = "s_click"
    /\ Do(<<"activate">>)
    /\ tPc' = AfterClick(scen.text, RetryClick(scen.el, DefaultClickAttempts))
    /\ UNCHANGED scen
    /\ UNCHANGED <<seqVars, pageVars, exportVars, clickVars, pollRes, resolveVars,
                   reportVars>>

\* Lines 910-921, taken by "Start in Studio" only: the second click, its
\* screenshot, and the maximize under `if maximize_after`.
TrSecondClick ==
    /\ tPc = "s_second"
    /\ Do(<<"wait1000", "activate", "screenshot">>
          \o (IF StepInfo(scen.text).maximize_after THEN <<"maximize">> ELSE <<>>))
    /\ tPc' = "s_delay"
    /\ UNCHANGED scen
    /\ UNCHANGED <<seqVars, pageVars, exportVars, clickVars, pollRes, resolveVars,
                   reportVars>>

\* Lines 923-931: wait_for_timeout(delay) and the screenshot after the click.
TrDelay ==
    /\ tPc = "s_delay"
    /\ Do(<<"delay", "screenshot_after">>)
    /\ tPc' = "finished"
    /\ UNCHANGED scen
    /\ UNCHANGED <<seqVars, pageVars, exportVars, clickVars, pollRes, resolveVars,
                   reportVars>>

\* --- the upload through the file chooser (lines 553-602)
\* found: a selector of upload_selectors matches; el: how the button answers
\* a click; chooser: the click opens a file chooser before the listener's
\* timeout.
UploadScenarios ==
    [frag : {"upload"}, found : BOOLEAN, el : SeqElements, chooser : BOOLEAN]

\* Lines 556-576.
TrUploadResolve ==
    /\ tPc = "u_resolve"
    /\ IF scen.found
       THEN Do(<<"resolved">>) /\ tPc' = "u_arm"
       ELSE Do(<<"unresolved">>) /\ tPc' = "skipped"
    /\ UNCHANGED scen
    /\ UNCHANGED <<seqVars, pageVars, exportVars, clickVars, pollRes, resolveVars,
                   reportVars>>

\* Line 580: `async with page.expect_file_chooser() as fc_info` is entered.
TrUploadArm ==
    /\ tPc = "u_arm"
    /\ Do(<<"arm_chooser">>)
    /\ tPc' = "u_click"
    /\ UNCHANGED scen
    /\ UNCHANGED <<seqVars, pageVars, exportVars, clickVars, pollRes, resolveVars,
                   reportVars>>

\* Line 581: retry_click(button) inside the with block; what it returns is not
\* read, a fault goes to the handler of line 597.
TrUploadClick ==
    /\ tPc = "u_click"
    /\ Do(<<"click_upload">>)
    /\ tPc' = IF RetryClick(scen.el, DefaultClickAttempts) = "raised"
              THEN "sub_error" ELSE "u_chooser"
    /\ UNCHANGED scen
    /\ UNCHANGED <<seqVars, pageVars, exportVars, clickVars, pollRes, resolveVars,
                   reportVars>>

\* Lines 582-598: fc_info.value, set_files(upload_path); without a chooser the
\* listener times out and the handler of line 597 logs it.
TrUploadFiles ==
    /\ tPc = "u_chooser"
    /\ IF RetryClick(scen.el, DefaultClickAttempts) = "True" /\ scen.chooser
       THEN Do(<<"chooser", "set_files">>) /\ tPc' = "finished"
       ELSE Do(<<"chooser_timeout">>) /\ tPc' = "sub_error"
    /\ UNCHANGED scen
    /\ UNCHANGED <<seqVars, pageVars, exportVars, clickVars, pollRes, resolveVars,
                   reportVars>>

\* --- the prompt step (lines 709-856)
\* textarea: a selector of textarea_selectors matches within its 10 s; fill:
\* textarea.fill(prompt_text) returns; generate: a Generate selector matches;
\* el: how the Generate button answers a click; add: the wait of line 772
\* returns a button within 180 s; close: the close button is not found, its
\* click fails, the modal closes after one click, or the close button is
\* clicked a second time (lines 814-817).
PromptScenarios ==
    [frag : {"prompt"}, textarea : BOOLEAN, fill : BOOLEAN, generate : BOOLEAN,
     el : SeqElements, add : BOOLEAN,
     close : {"none", "unclicked", "closed", "reclick"}]

AfterStageGoesOn(ok, next) == next

\* Lines 735-737, 743-745, 762-764, 780-781: a stage that failed ends the
\* loop body with `continue`.
AfterStage(ok, next) == IF ok THEN next ELSE "skipped"

\* Lines 717-737: the window is brought to the front and the textarea looked
\* up.
TrPromptTextarea ==
    /\ tPc = "p_textarea"
    /\ Do(<<"focus">> \o (IF scen.textarea THEN <<"textarea_found">>
                          ELSE <<"textarea_missing">>))
    /\ tPc' = AfterStage(scen.textarea, "p_fill")
    /\ UNCHANGED scen
    /\ UNCHANGED <<seqVars, pageVars, exportVars, clickVars, pollRes, resolveVars,
                   reportVars>>

\* Lines 740-745.
TrPromptFill ==
    /\ tPc = "p_fill"
    /\ Do(IF scen.fill THEN <<"fill">> ELSE <<"fill_fault">>)
    /\ tPc' = AfterStage(scen.fill, "p_generate")
    /\ UNCHANGED scen
    /\ UNCHANGED <<seqVars, pageVars, exportVars, clickVars, pollRes, resolveVars,
                   reportVars>>

\* Lines 748-767: the Generate button is looked up and handed to retry_click,
\* whose result is not read.
TrPromptGenerate ==
    /\ tPc = "p_generate"
    /\ Do(IF scen.generate
          THEN <<"generate_found", "click_generate">>
               \o (IF RetryClick(scen.el, DefaultClickAttempts) = "True"
                   THEN <<"generate_clicked">> ELSE <<>>)
          ELSE <<"generate_missing">>)
    /\ tPc' = AfterStage(scen.generate, "p_add")
    /\ UNCHANGED scen
    /\ UNCHANGED <<seqVars, pageVars, exportVars, clickVars, pollRes, resolveVars,
                   reportVars>>

\* Lines 770-781: wait_for_selector('button:has-text("Add")', timeout=180000)
\* in a try of its own, then retry_click(add_btn) or continue.
TrPromptAdd ==
    /\ tPc = "p_add"
    /\ Do(IF scen.add THEN <<"wait_add", "add_appeared", "click_add">>
          ELSE <<"wait_add", "add_timeout">>)
    /\ tPc' = AfterStage(scen.add, "p_close")
    /\ UNCHANGED scen
    /\ UNCHANGED <<seqVars, pageVars, exportVars, clickVars, pollRes, resolveVars,
                   reportVars>>

\* Lines 784-856: the modal is closed (every wait and script in a try of its
\* own), then wait_for_timeout(delay).
TrPromptClose ==
    /\ tPc = "p_close"
    /\ Do((IF scen.close = "none" THEN <<"close_missing">>
           ELSE IF scen.close = "unclicked" THEN <<"close_found", "click_close">>
           ELSE IF scen.close = "closed"
           THEN <<"close_found", "click_close", "modal_closed", "neutralize">>
           ELSE <<"close_found", "click_close", "click_close", "neutralize">>)
          \o <<"delay">>)
    /\ tPc' = "finished"
    /\ UNCHANGED scen
    /\ UNCHANGED <<seqVars, pageVars, exportVars, clickVars, pollRes, resolveVars,
                   reportVars>>

\* --- the options step (lines 605-704)
\* found: a three-dots selector matches; open: a menu item shows within 1.5 s
\* of the click; gen: the 'Generate 3D' item is there at the first query,
\* only after a second click on the button, or not at all; el: how the item
\* answers a click; wait: wait_for_timeout(500) returns.
OptionsScenarios ==
    [frag : {"options"}, found : BOOLEAN, open : BOOLEAN,
     gen : {"found", "late", "missing"}, el : SeqElements, wait : BOOLEAN]

ExportAfterClickOnlyIfClicked(r) == r = "True"

\* Line 678: `await retry_click(gen_btn)`; what the call returns is not read.
ExportAfterClick(r) == TRUE

\* Lines 605-669: the three-dots button is looked up and clicked once, and
\* the menu forced visible.
TrOptionsOpen ==
    /\ tPc = "o_open"
    /\ IF scen.found
       THEN /\ Do(<<"resolved", "click_options">>
                  \o (IF scen.open THEN <<"menu_open">> ELSE <<>>)
                  \o <<"force_visible">>)
            /\ tPc' = "o_generate"
       ELSE Do(<<"unresolved">>) /\ tPc' = "skipped"
    /\ UNCHANGED scen
    /\ UNCHANGED <<seqVars, pageVars, exportVars, clickVars, pollRes, resolveVars,
                   reportVars>>

\* Lines 671-704: the 'Generate 3D' item.  Found at the first query it is
\* handed to retry_click, 500 ms pass and _handle_generation_and_export is
\* called; otherwise, with menu_open false, the button is clicked again and an
\* item found then is clicked (lines 685-693).  A fault of the wait goes to
\* the handler of line 700.
TrOptionsGenerate ==
    /\ tPc = "o_generate"
    /\ LET r == RetryClick(scen.el, DefaultClickAttempts) IN
       IF scen.gen = "found"
       THEN /\ Do(<<"gen_found", "click_generate3d">>
                  \o (IF r = "True" THEN <<"generate3d_clicked">> ELSE <<>>)
                  \o (IF scen.wait /\ ExportAfterClick(r) /\ CallsExport(scen.gen)
                      THEN <<"wait500", "start_export">> ELSE <<"screenshot">>))
            /\ tPc' = IF scen.wait /\ ExportAfterClick(r) /\ CallsExport(scen.gen)
                      THEN "export" ELSE "finished"
       ELSE /\ Do(<<"gen_missing">>
                  \o (IF scen.open THEN <<>>
                      ELSE <<"click_options">>
                           \o (IF scen.gen = "late"
                               THEN <<"gen_found", "click_generate3d">>
                                    \o (IF r = "True" THEN <<"generate3d_clicked">>
                                        ELSE <<>>)
                                    \o (IF CallsExport(scen.gen)
                                        THEN <<"start_export">> ELSE <<>>)
                               ELSE <<>>))
                  \o <<"screenshot">>)
            /\ tPc' = "finished"
    /\ UNCHANGED scen
    /\ UNCHANGED <<seqVars, pageVars, exportVars, clickVars, pollRes, resolveVars,
                   reportVars>>

\* --- one call of _wait_for_new_layer (lines 944-990)
\* What the program reads of a row's label: the 3-D marker and the original
\* file name.
Labels == [has3d : BOOLEAN, hasName : BOOLEAN]

LabelLists == UNION {[1..n -> Labels] : n \in 0..MaxRows}

\* labels: the layer list when the wait of line 952 ends, later the list the
\* query of line 970 reads; changed: the application changed the list in
\* between; query: query_selector_all returns; raise1, raise2: the rows whose
\* inner_text() raised in the loop of lines 971-978 and of lines 981-987;
\* ret: the index of the row returned, 0 for None, -1 before the return.
WaitLayerScenarios ==
    [frag : {"wait_layer"}, labels : LabelLists, changed : {FALSE}, query : BOOLEAN,
     raise1 : {{}}, raise2 : {{}}, ret : {-1}]

\* Lines 972-976 and 982-986: a label whose inner_text() raised reads as "",
\* which holds neither a marker nor the file name.
LabelsRead(rs, raised) ==
    [i \in 1..Len(rs) |->
        IF i \in raised THEN [has3d |-> FALSE, hasName |-> FALSE] ELSE rs[i]]

SelectNewLayerFallbackOnly(rs, raised1, raised2) ==
    FirstOtherRow(LabelsRead(rs, raised2), 1)

\* Lines 970-987: the two loops over the rows, each reading every label anew.
SelectNewLayerRead(rs, raised1, raised2) ==
    IF First3dRow(LabelsRead(rs, raised1), 1) # 0
    THEN First3dRow(LabelsRead(rs, raised1), 1)
    ELSE FirstOtherRow(LabelsRead(rs, raised2), 1)

\* Lines 952-968 and 988-990: the wait ends with the predicate satisfied, or
\* raises at its deadline and the handler returns None.
TrLayerWait ==
    /\ tPc = "w_wait"
    /\ IF NewLayerPredicate(scen.labels)
       THEN Do(<<"predicate_held">>) /\ tPc' = "w_query" /\ scen' = scen
       ELSE /\ Do(<<"wait_timeout", "return_none">>) /\ tPc' = "returned"
            /\ scen' = [scen EXCEPT !.ret = 0]
    /\ UNCHANGED <<seqVars, pageVars, exportVars, clickVars, pollRes, resolveVars,
                   reportVars>>

\* Between the wait and the query the application re-renders its layer list:
\* a row goes, a row comes on top, or a row gets another label.
TrLayerListChanges ==
    /\ tPc = "w_query"
    /\ \E new \in LabelLists :
         /\ \/ \E i \in 1..Len(scen.labels) :
                 new = [j \in 1..(Len(scen.labels) - 1) |->
                           IF j < i THEN scen.labels[j] ELSE scen.labels[j + 1]]
            \/ \E l \in Labels : new = <<l>> \o scen.labels
            \/ \E i \in 1..Len(scen.labels), l \in Labels :
                 new = [scen.labels EXCEPT ![i] = l] /\ new # scen.labels
         /\ scen' = [scen EXCEPT !.labels = new, !.changed = TRUE]
    /\ UNCHANGED <<tPc, trace>>
    /\ UNCHANGED <<seqVars, pageVars, exportVars, clickVars, pollRes, resolveVars,
                   reportVars>>

\* Lines 970-990: the rows are queried and one is returned; a fault of the
\* query goes to the handler of line 988.
TrLayerRows ==
    /\ tPc = "w_query"
    /\ \E r1 \in SUBSET (1..Len(scen.labels)), r2 \in SUBSET (1..Len(scen.labels)) :
         LET r == IF scen.query THEN SelectNewLayerRead(scen.labels, r1, r2) ELSE 0 IN
         /\ scen' = [scen EXCEPT !.raise1 = r1, !.raise2 = r2, !.ret = r]
         /\ Do(<<"query_rows">> \o (IF r # 0 THEN <<"return_row">>
                                    ELSE <<"return_none">>))
    /\ tPc' = "returned"
    /\ UNCHANGED <<seqVars, pageVars, exportVars, clickVars, pollRes, resolveVars,
                   reportVars>>

\* --- one attempt of the export loop (lines 1072-1204)
\* ready: _try_get_ready_row returns a row; hover: bounding_box() gives a box,
\* gives None, or a call of the hover raises; dots: the three-dots button is
\* found in the row, is not, or the query raises; export, glb: the entry is
\* found; download: the download the GLB click starts begins while the
\* listener is armed, begins after its 30 s, or there is none; save: save_as
\* returns; kv: reading the file and Actor.set_value("exported.glb", ...)
\* return; shot: the screenshot of line 1201 returns.
AttemptScenarios ==
    [frag : {"attempt"}, ready : BOOLEAN, hover : {"ok", "nobox", "raise"},
     dots : {"found", "missing", "raise"}, export : BOOLEAN, glb : BOOLEAN,
     download : {"in_window", "late", "never"}, save : BOOLEAN, kv : BOOLEAN,
     shot : BOOLEAN]

\* Lines 1074-1081: the readiness check.
TrCheck ==
    /\ tPc = "ex_check"
    /\ Do(<<"check">>)
    /\ tPc' = AfterCheck(scen.ready)
    /\ UNCHANGED scen
    /\ UNCHANGED <<seqVars, pageVars, exportVars, clickVars, pollRes, resolveVars,
                   reportVars>>

\* Lines 1077-1079: what an attempt without a ready row does before `continue`.
NotReadyOps == <<"wait5000">>

TrBackoff ==
    /\ tPc = "ex_backoff"
    /\ Do(NotReadyOps)
    /\ tPc' = "continue"
    /\ UNCHANGED scen
    /\ UNCHANGED <<seqVars, pageVars, exportVars, clickVars, pollRes, resolveVars,
                   reportVars>>

AfterHoverStopsOnFault(h) == IF h = "raise" THEN "continue" ELSE "ex_dots"

\* Lines 1089-1095: the hover sits in a try of its own whose handler is `pass`.
AfterHover(h) == "ex_dots"

TrHover ==
    /\ tPc = "ex_hover"
    /\ Do(IF scen.hover = "ok" THEN <<"hover", "wait200">>
          ELSE IF scen.hover = "raise" THEN <<"hover_fault">> ELSE <<>>)
    /\ tPc' = AfterHover(scen.hover)
    /\ UNCHANGED scen
    /\ UNCHANGED <<seqVars, pageVars, exportVars, clickVars, pollRes, resolveVars,
                   reportVars>>

\* Lines 1097-1113: the three-dots button is looked up in the row and clicked.
\* Not found: wait 2 s, continue; a raising query: handler of line 1203.
TrDots ==
    /\ tPc = "ex_dots"
    /\ IF scen.dots = "found"
       THEN Do(<<"click_dots">>) /\ tPc' = "ex_export"
       ELSE IF scen.dots = "missing"
       THEN Do(<<"wait2000">>) /\ tPc' = "continue"
       ELSE Do(<<>>) /\ tPc' = "continue"
    /\ UNCHANGED scen
    /\ UNCHANGED <<seqVars, pageVars, exportVars, clickVars, pollRes, resolveVars,
                   reportVars>>

\* Lines 1115-1129: wait for a menu item, click the Export entry when there is
\* one and wait for the GLB label; the GLB look-up follows either way.
TrExportEntry ==
    /\ tPc = "ex_export"
    /\ Do(<<"wait_menu">>
          \o (IF scen.export THEN <<"click_export", "wait_glb">> ELSE <<>>))
    /\ tPc' = "ex_glb"
    /\ UNCHANGED scen
    /\ UNCHANGED <<seqVars, pageVars, exportVars, clickVars, pollRes, resolveVars,
                   reportVars>>

GlbMissingOpsNoEscape == <<"wait5000">>

\* Lines 1149-1157: what the attempt does once no GLB entry was found.
GlbMissingOps == <<"escape", "wait5000">>

\* Lines 1131-1157: the GLB entry is looked up.
TrGlb ==
    /\ tPc = "ex_glb"
    /\ IF scen.glb
       THEN Do(<<>>) /\ tPc' = "ex_arm"
       ELSE Do(GlbMissingOps) /\ tPc' = "continue"
    /\ UNCHANGED scen
    /\ UNCHANGED <<seqVars, pageVars, exportVars, clickVars, pollRes, resolveVars,
                   reportVars>>

\* Line 1162: `async with page.expect_download(timeout=30000) as dl_info` is
\* entered; the listener's 30 s run from here.
TrArm ==
    /\ tPc = "ex_arm"
    /\ Do(<<"arm_download">>)
    /\ tPc' = "ex_click"
    /\ UNCHANGED scen
    /\ UNCHANGED <<seqVars, pageVars, exportVars, clickVars, pollRes, resolveVars,
                   reportVars>>

\* Line 1163: retry_click(glb_btn) inside the with block.
TrClickGlb ==
    /\ tPc = "ex_click"
    /\ Do(<<"click_glb">>)
    /\ tPc' = "ex_await"
    /\ UNCHANGED scen
    /\ UNCHANGED <<seqVars, pageVars, exportVars, clickVars, pollRes, resolveVars,
                   reportVars>>

ListenerCapturesWhenever(when) == when # "never"

\* Line 1164, `download = await dl_info.value`: the listener yields a download
\* that began while it was armed; past its timeout it raises and is gone.
ListenerCaptures(when) == when = "in_window"

DownloadSuccessOnlyIfPushed(pushed) == pushed

\* Lines 1175-1185: the push to the key-value store has a try of its own,
\* whose handler only logs; `download_success = True` follows it.
DownloadSuccess(pushed) == TRUE

\* Lines 1164-1198: the download is awaited and saved, the path recorded and
\* the file pushed to the key-value store; on a timeout or a failed save the
\* attempt sends Escape, waits 5 s and continues.
TrDownload ==
    /\ tPc = "ex_await"
    /\ IF ListenerCaptures(scen.download)
       THEN IF scen.save
            THEN IF DownloadSuccess(scen.kv)
                 THEN /\ Do(<<"download_starts", "captured", "save", "record_path">>
                            \o (IF scen.kv THEN <<"kv_push">> ELSE <<"kv_fault">>))
                      /\ tPc' = "ex_post"
                 ELSE /\ Do(<<"download_starts", "captured", "save", "record_path",
                              "kv_fault", "escape", "wait5000">>)
                      /\ tPc' = "continue"
            ELSE /\ Do(<<"download_starts", "captured", "save_fault", "escape",
                         "wait5000">>)
                 /\ tPc' = "continue"
       ELSE /\ Do(<<"listener_timeout">>
                  \o (IF scen.download = "late" THEN <<"download_starts">> ELSE <<>>)
                  \o <<"escape", "wait5000">>)
            /\ tPc' = "continue"
    /\ UNCHANGED scen
    /\ UNCHANGED <<seqVars, pageVars, exportVars, clickVars, pollRes, resolveVars,
                   reportVars>>

\* Lines 1200-1204: the screenshot after the export and `return result_data`;
\* a fault of the screenshot goes to the handler of line 1203.
TrPost ==
    /\ tPc = "ex_post"
    /\ IF scen.shot
       THEN Do(<<"screenshot">>) /\ tPc' = "returned"
       ELSE Do(<<>>) /\ tPc' = "continue"
    /\ UNCHANGED scen
    /\ UNCHANGED <<seqVars, pageVars, exportVars, clickVars, pollRes, resolveVars,
                   reportVars>>

InitTrace ==
    /\ scen \in StepScenarios \cup UploadScenarios \cup PromptScenarios
                \cup OptionsScenarios \cup WaitLayerScenarios \cup AttemptScenarios
    /\ tPc = IF scen.frag = "step" THEN "s_focus"
             ELSE IF scen.frag = "upload" THEN "u_resolve"
             ELSE IF scen.frag = "prompt" THEN "p_textarea"
             ELSE IF scen.frag = "options" THEN "o_open"
             ELSE IF scen.frag = "wait_layer" THEN "w_wait" ELSE "ex_check"
    /\ trace = <<>>

\* ======================================================= specifications
SeqIdle ==
    /\ pc = "main" /\ stepIndex = 0 /\ outcome = "none" /\ anyFailed = FALSE
    /\ transportStep = 0 /\ seqPath = FALSE /\ mainPath = FALSE
    /\ status = "none" /\ outputWritten = FALSE
    /\ button = 0 /\ lastAct = NoActivation /\ menuOpen = FALSE
    /\ genClicked = FALSE /\ exportCalled = FALSE
    /\ snapshot = {} /\ started = <<>>

ExportIdle ==
    /\ newLayer = 0 /\ layerTimeout = FALSE /\ layerEl = "param"
    /\ attempt = 0 /\ notReady = 0 /\ bodyFailed = FALSE
    /\ exportPath = FALSE /\ saved = FALSE /\ exportRet = "none" /\ sawBanner = FALSE

PageIdle == pageAlive = TRUE /\ banner = FALSE /\ rows = <<>>

ReportIdle == mainFault = FALSE

TraceIdle == scen = [frag |-> "none"] /\ tPc = "idle" /\ trace = <<>>

\* The run: main from its first line on.
Init ==
    /\ prompt \in BOOLEAN
    /\ SeqIdle /\ PageIdle /\ ExportIdle /\ ClickIdle /\ PollIdle /\ ResolveIdle
    /\ ReportIdle /\ TraceIdle

\* The steps of the program.
ProgramStep ==
    \/ MainStart
    \/ StepGeneric
    \/ StepStartInStudio
    \/ StepUpload
    \/ StepPrompt
    \/ StepOptions
    \/ StepOptionsGenerate
    \/ WaitForNewLayerSatisfied
    \/ WaitForNewLayerTimeout
    \/ WaitForNewLayerSelect
    \/ ExportReadinessCheck
    \/ ExportBackoff
    \/ ExportHover
    \/ ExportMenu
    \/ ExportDownload
    \/ ExportPostScreenshot
    \/ ExportReturn
    \/ SeqReturn
    \/ MainReport

Next ==
    \/ MainStart
    \/ StepGeneric
    \/ StepStartInStudio
    \/ StepUpload
    \/ StepPrompt
    \/ StepOptions
    \/ StepOptionsGenerate
    \/ WaitForNewLayerSatisfied
    \/ WaitForNewLayerTimeout
    \/ WaitForNewLayerSelect
    \/ ExportReadinessCheck
    \/ ExportBackoff
    \/ ExportHover
    \/ ExportMenu
    \/ ExportDownload
    \/ ExportPostScreenshot
    \/ ExportReturn
    \/ SeqReturn
    \/ MainReport
    \/ PageDies
    \/ PageChanges

Spec == Init /\ [][Next]_vars

\* The run with its scheduling: the program is one coroutine chain driven by
\* the event loop, and every await in it returns or raises (each Playwright
\* wait carries a timeout, explicit or the library's default, and the scripts
\* evaluated in the page are finite loops), so a step of the program that
\* stays possible is eventually taken.  Nothing is assumed of the page.
LiveSpec == Init /\ [][Next]_vars /\ WF_vars(ProgramStep)

\* One call of retry_click on any element and any max_attempts.
InitClickSpec ==
    /\ prompt = FALSE /\ SeqIdle /\ PageIdle /\ ExportIdle /\ PollIdle /\ ResolveIdle
    /\ ReportIdle /\ TraceIdle
    /\ InitClick

NextClick ==
    \/ ClickEntry
    \/ ClickAttempt
    \/ ClickExhausted

SpecClick == InitClickSpec /\ [][NextClick]_vars

\* The readiness predicates on any page.
InitPollSpec ==
    /\ prompt = FALSE /\ SeqIdle /\ pageAlive = TRUE /\ ExportIdle /\ ClickIdle
    /\ ResolveIdle /\ ReportIdle /\ TraceIdle
    /\ InitPoll

NextPoll ==
    \/ PollLayerReady
    \/ PollWaitUntilLayerReady
    \/ PollNewLayer
    \/ PollPageChange

SpecPoll == InitPollSpec /\ [][NextPoll]_vars

\* The "Start in Studio" resolution on any page.
InitResolveSpec ==
    /\ prompt = FALSE /\ SeqIdle /\ PageIdle /\ ExportIdle /\ ClickIdle /\ PollIdle
    /\ ReportIdle /\ TraceIdle
    /\ InitResolve

NextResolve == ResolveButton

SpecResolve == InitResolveSpec /\ [][NextResolve]_vars

\* One step, one upload, one prompt step, one options step, one wait for the
\* new layer or one export attempt, under any answers of the browser.
InitTraceSpec ==
    /\ prompt = FALSE /\ SeqIdle /\ PageIdle /\ ExportIdle /\ ClickIdle /\ PollIdle
    /\ ResolveIdle /\ ReportIdle
    /\ InitTrace

NextTrace ==
    \/ TrFocus
    \/ TrNetIdle
    \/ TrScreenshot
    \/ TrResolve
    \/ TrNotFound
    \/ TrScript
    \/ TrClick
    \/ TrSecondClick
    \/ TrDelay
    \/ TrUploadResolve
    \/ TrUploadArm
    \/ TrUploadClick
    \/ TrUploadFiles
    \/ TrPromptTextarea
    \/ TrPromptFill
    \/ TrPromptGenerate
    \/ TrPromptAdd
    \/ TrPromptClose
    \/ TrOptionsOpen
    \/ TrOptionsGenerate
    \/ TrLayerWait
    \/ TrLayerListChanges
    \/ TrLayerRows
    \/ TrCheck
    \/ TrBackoff
    \/ TrHover
    \/ TrDots
    \/ TrExportEntry
    \/ TrGlb
    \/ TrArm
    \/ TrClickGlb
    \/ TrDownload
    \/ TrPost

SpecTrace == InitTraceSpec /\ [][NextTrace]_vars

\* ================================================================ claims
SeqRunning == pc \in {"seq", "opt_menu"} \/ InExport

\* C1: sequencer fault isolation.  When a step ends in an internal failure
\* (element not resolved, all click techniques failed, a sub-action raised)
\* the loop is positioned on the next step of the list, and a sequence in
\* which some step failed returns only after every step of the list was run.
C1_FaultIsolation ==
    /\ outcome \in InternalFailures =>
         (pc = "seq" /\ stepIndex <= NumSteps) \/ stepIndex = NumSteps + 1
    /\ anyFailed => SeqRunning \/ stepIndex = NumSteps + 1

\* A step failed and the step after it was run and ended well.
C1_Witness == anyFailed /\ outcome = "ok" /\ pc = "seq"

\* C2 as claimed: once a step met a transport fault (the session became
\* unusable during step transportStep) no later step is started.
C2_TransportAborts == transportStep # 0 => stepIndex <= transportStep + 1

\* C2 as amended: a transport fault ends the step like any other exception
\* and the loop goes on; after it the sequence is still running or has run
\* every step of the list, and each later step ends in the transport fault too.
C2_TransportDoesNotAbort ==
    /\ transportStep # 0 => SeqRunning \/ stepIndex = NumSteps + 1
    /\ (transportStep # 0 /\ stepIndex > transportStep /\ transportStep < NumSteps)
         => outcome = "transport"

\* The session was lost in an early step and the run went through all steps.
C2_Witness ==
    /\ transportStep = 1 /\ pc = "done" /\ stepIndex = NumSteps + 1
    /\ outcome = "transport"

\* C3: attempt accounting of the export loop with max_attempts = N.  No more
\* than N attempts are started; a success preceded only by not-ready attempts,
\* k of them, is reached in attempt k + 1; the loop ends exhausted only after
\* attempt N, and when no attempt ever found a ready row all N attempts were
\* not-ready ones; with the session usable the loop ends in one of these two ways.
C3_AttemptAccounting ==
    /\ attempt <= MaxExportAttempts
    /\ (exportRet = "success" /\ ~bodyFailed) => attempt = notReady + 1
    /\ exportRet = "exhausted" => attempt = MaxExportAttempts
    /\ (exportRet = "exhausted" /\ ~bodyFailed) => notReady = MaxExportAttempts
    /\ (pc = "ex_return" /\ pageAlive) => exportRet \in {"success", "exhausted"}

\* Not ready on the first k >= 1 attempts, exported in attempt k + 1.
C3_Witness ==
    /\ exportRet = "success" /\ ~bodyFailed /\ notReady >= 1
    /\ attempt = notReady + 1

\* C4: retry_click invokes the techniques in the order native, forced native,
\* script, coordinate and stops at the first that succeeds: nothing is invoked
\* after a success, and with native and forced failing and script succeeding
\* it returns True after exactly the three invocations native, forced, script.
C4_OrderAndShortCircuit ==
    /\ \A i \in 1..Len(ckCalls) :
         ckCalls[i] = (IF i = 1 THEN "native" ELSE IF i = 2 THEN "forced"
                       ELSE IF i = 3 THEN "script" ELSE "coord")
    /\ Len(ckCalls) <= ckMax
    /\ ckRet = "True" => ckPc = "returned"
    /\ (ckPc = "returned" /\ IsHandle(ckElem) /\ ~ckElem.native /\ ~ckElem.forced
        /\ ckElem.script /\ ckMax >= 3)
         => ckRet = "True" /\ ckCalls = <<"native", "forced", "script">>

\* Native and forced failed, script succeeded, a fourth attempt was allowed.
C4_Witness ==
    /\ ckPc = "returned" /\ ckElem.kind = "handle" /\ ~ckElem.native
    /\ ~ckElem.forced /\ ckElem.script /\ ckMax = DefaultClickAttempts
    /\ ckElem.bbox = "box" /\ ckElem.mouse /\ ckRet = "True"

\* Technique number i (0-based) performs its click on the element without fault.
Performs(el, i) ==
    /\ IsHandle(el)
    /\ \/ i = 0 /\ el.native
       \/ i = 1 /\ el.forced
       \/ i = 2 /\ el.script
       \/ i >= 3 /\ el.bbox = "box" /\ el.mouse

\* C5: retry_click(element, max_attempts = n) returns True exactly when one of
\* the first n techniques performs its click without fault, and False exactly
\* when none of them does (a coordinate click without bounding box included).
C5_ReturnValue ==
    ckPc = "returned" =>
      /\ ckRet = "True" <=> \E i \in 0..(ckMax - 1) : Performs(ckElem, i)
      /\ ckRet = "False" <=> \A i \in 0..(ckMax - 1) : ~Performs(ckElem, i)

\* All four techniques failed, the fourth because there is no bounding box.
C5_Witness ==
    /\ ckPc = "returned" /\ ckRet = "False" /\ ckElem.kind = "handle"
    /\ ckElem.bbox = "null" /\ ckMax = DefaultClickAttempts /\ Len(ckCalls) = 4

\* C6: retry_click never raises: whatever the element (handle, stale handle,
\* None, str) and whatever faults the techniques or the re-acquisition raise,
\* the call ends by returning True or False.
C6_NeverRaises ==
    /\ ckRet # "raised"
    /\ ckPc = "returned" => ckRet \in {"True", "False"}

\* Every technique raised on a handle, and so did bounding_box().
C6_Witness ==
    /\ ckPc = "returned" /\ ckElem.kind = "handle" /\ ~ckElem.native
    /\ ~ckElem.forced /\ ~ckElem.script /\ ckElem.bbox = "raise"
    /\ Len(ckCalls) >= 4

\* C7: no readiness evaluation judges a row ready that shows a spinner,
\* whatever its ready icons: the row _layer_ready_and_row returns and the row
\* for which the predicate of _wait_until_layer_ready holds have no spinner in
\* the page state the evaluation read.
C7_NoReadyWhileSpinner ==
    (pollRes.kind \in {"layer_ready", "wait_until"} /\ pollRes.ready)
      => ~rows[pollRes.row].spinner

\* The only 3-D rows carry a spinner next to a ready icon, there is no
\* banner, and the evaluation answered "not ready".
C7_Witness ==
    /\ pollRes.kind = "layer_ready" /\ ~pollRes.ready /\ ~banner
    /\ \E i \in 1..Len(rows) :
         rows[i].has3d /\ rows[i].spinner /\ (rows[i].mesh \/ rows[i].check)

\* C8 as claimed: while the banner is present no export attempt is at its
\* hover or at its menu clicks.
C8_NoAttemptBodyUnderBanner ==
    (pageAlive /\ banner) => pc \notin {"ex_hover", "ex_menu"}

\* C8 as amended: an attempt whose readiness check read the banner judged no
\* row ready and does not reach the hover or the menu: it is in its backoff.
C8_BannerAtCheckSkipsAttempt == sawBanner => pc = "ex_backoff"

\* The check read the banner although a 3-D row shows a ready icon and no spinner.
C8_Witness ==
    /\ sawBanner /\ banner /\ pc = "ex_backoff"
    /\ \E i \in 1..Len(rows) : rows[i].has3d /\ ~rows[i].spinner /\ rows[i].mesh

\* C9: the run takes the 'success' branch of its report exactly when some
\* export attempt captured a download and saved it.
C9_SuccessIffCaptured == pc = "done" => (status = "success" <=> saved)

\* C10: 'exported_glb_path' is in a result_data (the export's, the
\* sequencer's, main's) only if a download was captured and saved as
\* exported.glb, and the export loop returns success only with both.
C10_PathOnlyAfterSave ==
    /\ (exportPath \/ seqPath \/ mainPath) => saved
    /\ exportRet = "success" => exportPath /\ saved

\* The path reached main's result_data.
C10_Witness == pc = "done" /\ mainPath /\ exportRet = "success"

\* C11: export exhaustion is reported, not fatal.  With the session usable an
\* export loop that ends without a saved download ends by the return of line
\* 1207; after such an exhaustion no result_data holds an artifact path, the
\* options step has ended and the sequencer is past its last step, and the
\* run's report is the failure branch with no OUTPUT record.
C11_ExhaustionReported ==
    /\ (pc = "ex_return" /\ pageAlive /\ ~saved) => exportRet = "exhausted"
    /\ (exportRet = "exhausted" /\ ~saved) =>
         /\ ~exportPath /\ ~seqPath /\ ~mainPath
         /\ pc \in {"ex_return", "seq", "report", "done"}
         /\ pc # "ex_return" => stepIndex = NumSteps + 1 /\ outcome = "sub_error"
         /\ pc = "done" => status = "failed" /\ ~outputWritten

\* The loop ran out with nothing saved and the run reported failure.
C11_Witness ==
    /\ pc = "done" /\ exportRet = "exhausted" /\ ~saved /\ pageAlive
    /\ attempt = MaxExportAttempts /\ status = "failed"

\* C12: a new-layer wait that reaches its deadline does not raise.  After
\* page.wait_for_function raised, _wait_for_new_layer has returned None, no
\* export attempt was started, no artifact path was recorded, and the
\* sequencer went on past the options step.
C12_WaitTimeoutContinues ==
    layerTimeout =>
      /\ newLayer = 0 /\ attempt = 0 /\ exportRet = "none"
      /\ ~exportPath /\ ~seqPath
      /\ pc \in {"seq", "report", "done"} /\ stepIndex = NumSteps + 1
      /\ outcome = "sub_error"

\* The wait ran out on a usable page and the run went on to its report.
C12_Witness == layerTimeout /\ pageAlive /\ pc = "done" /\ genClicked

StepTexts == {ButtonsToClick(prompt)[i].text : i \in 1..NumSteps}

C14_NoHandleReusedAfterRerender == lastAct.age = 0

\* C14 as amended: every click of the sequencer is on a handle resolved in
\* the step that clicks it (no handle is carried from one step into a later
\* one); within a step a handle is clicked again after clicks and waits.
C14_HandleResolvedInClickingStep ==
    /\ lastAct.at # 0 => lastAct.from = lastAct.at
    /\ lastAct.at <= NumSteps

\* "Start in Studio" was clicked a second time through the handle resolved
\* before the first click and the wait that followed it.
C14_Witness ==
    /\ lastAct.age = 2 /\ lastAct.at = 2 /\ lastAct.from = 2
    /\ outcome = "ok" /\ pc = "seq" /\ stepIndex = 3

\* C15: every export attempt works on the row its own readiness check
\* resolved.  While an attempt is at its hover, its menu clicks, its download
\* or its screenshot, layer_el is the handle of this attempt; the handle
\* passed into _export_layer_as_glb and the handles of earlier attempts are
\* held only at a readiness check or in a backoff, where nothing is done to
\* them.
C15_FreshRowEveryAttempt ==
    /\ pc \in {"ex_hover", "ex_menu", "ex_download", "ex_post"} => layerEl = "fresh"
    /\ layerEl \in {"param", "stale"} => pc \notin {"ex_hover", "ex_menu", "ex_download", "ex_post"}
    /\ layerEl = "stale" => bodyFailed

\* A later attempt hovers its own row after an earlier attempt's row failed.
C15_Witness ==
    /\ pc = "ex_hover" /\ attempt >= 2 /\ bodyFailed /\ layerEl = "fresh"

\* C16: whenever the sequencer has clicked 'Generate 3D' it has called
\* _handle_generation_and_export (the wait for the new row and the export loop).
C16_GenerateThenExport == genClicked => exportCalled

\* C17: resolution of "Start in Studio".  When some element of the page has
\* the label as its stripped text, the button is the first such element, and
\* neither the containment pass nor the script decides, whatever else the
\* page holds.
C17_ExactTextFirst ==
    (resolved.by # "none"
     /\ \E i \in 1..Len(dom.els) : Listed(dom.els[i]) /\ Strip(dom.els[i]) = "exact")
      => /\ resolved.by = "exact" /\ ~resolved.script
         /\ resolved.idx \in 1..Len(dom.els)
         /\ Strip(dom.els[resolved.idx]) = "exact"
         /\ \A j \in 1..(resolved.idx - 1) :
              ~(Listed(dom.els[j]) /\ Strip(dom.els[j]) = "exact")

\* An element that only contains the label comes first in the document, a
\* card and an image button are there too, and the exact one is resolved.
C17_Witness ==
    /\ resolved.by = "exact" /\ resolved.idx = 2
    /\ dom.els[1] = "short" /\ dom.cards /\ dom.images

\* C18: a run that has ended has written the OUTPUT record or has declared
\* the actor failed.
C18_AlwaysReports == pc = "done" => (outputWritten \/ status = "failed")

\* C19 as claimed: every run that has ended has written the result record.
C19_RecordExactlyOnce == pc = "done" => outputWritten

\* C19 as amended: the result record is written only by the last step of a
\* run, only on the success branch (a path in result_data and the file on
\* disk), and a run that declares failure has written none.
C19_RecordOnlyOnSuccessAtEnd ==
    /\ outputWritten => pc = "done" /\ status = "success" /\ mainPath /\ saved
    /\ status = "failed" => ~outputWritten

\* A run exported and wrote its record.
C19_Witness == pc = "done" /\ status = "success" /\ outputWritten

C21_SnapshotOnUnresolved ==
    outcome \in {"not_found", "fallback"} => snapshot = ShotAndMarkup

HappyRun ==
    /\ pc = "done" /\ stepIndex = NumSteps + 1
    /\ ~anyFailed /\ transportStep = 0
    /\ saved /\ ~bodyFailed
    /\ ~mainFault

C24_StepsInListOrder ==
    /\ Len(started) <= NumSteps
    /\ \A i \in 1..Len(started) : started[i] = ButtonsToClick(prompt)[i].text
    /\ pc = "seq" => Len(started) = stepIndex - 1
    /\ (pc = "opt_menu" \/ InExport) => Len(started) = stepIndex
    /\ pc \in {"main", "report", "done"} =>
           Len(started) = IF stepIndex = 0 THEN 0 ELSE NumSteps

C24_Witness == pc = "report" /\ prompt /\ Len(started) = 5 /\ anyFailed

InTrace(op) == \E i \in 1..Len(trace) : trace[i] = op

\* Every occurrence of b in the trace has an a before it.
Precedes(a, b) ==
    \A j \in 1..Len(trace) : trace[j] = b => \E i \in 1..(j - 1) : trace[i] = a

\* The ranked operations of the trace occur in the order of their ranks.
InRankOrder(Rank(_)) ==
    \A i, j \in 1..Len(trace) :
        (i < j /\ Rank(trace[i]) # 0 /\ Rank(trace[j]) # 0) =>
            Rank(trace[i]) <= Rank(trace[j])

AtMostOnce(op) == Cardinality({i \in 1..Len(trace) : trace[i] = op}) <= 1

StepRank(op) ==
    IF op = "focus" THEN 1
    ELSE IF op \in {"netidle", "netidle_timeout"} THEN 2
    ELSE IF op \in {"resolved", "unresolved"} THEN 3
    ELSE IF op = "activate" THEN 4
    ELSE IF op = "maximize" THEN 5
    ELSE IF op = "delay" THEN 6
    ELSE 0

\* C25: order of a generic step.  Focus activation, network-idle wait,
\* look-up, activation, maximize, post-delay occur in this order; the window
\* is maximized only in a step that carries maximize_after, and in every such
\* step that completes; once the screenshot of line 320 is through the
\* look-up runs, whether the network went idle or the wait timed out; and
\* retry_click is called only on a handle the look-up returned.
C25_GenericStepOrder ==
    scen.frag = "step" =>
        /\ InRankOrder(StepRank)
        /\ InTrace("activate") => (scen.found /\ Precedes("resolved", "activate"))
        /\ (InTrace("screenshot") /\ tPc # "s_resolve") =>
               (InTrace("resolved") \/ InTrace("unresolved"))
        /\ InTrace("maximize") => StepInfo(scen.text).maximize_after
        /\ tPc = "finished" =>
               /\ InTrace("focus") /\ InTrace("resolved") /\ InTrace("activate")
               /\ InTrace("netidle") \/ InTrace("netidle_timeout")
               /\ InTrace("delay")
               /\ InTrace("maximize") <=> StepInfo(scen.text).maximize_after

C25_Witness ==
    /\ scen.frag = "step" /\ tPc = "finished" /\ ~scen.idle
    /\ InTrace("netidle_timeout") /\ InTrace("maximize")

\* An attempt of the export loop that got as far as the GLB look-up, found no
\* GLB entry and is over.
GlbMissingAttempt ==
    /\ scen.frag = "attempt" /\ tPc = "continue"
    /\ scen.ready /\ scen.dots = "found" /\ ~scen.glb

\* C26 as stated: an attempt that finds no GLB entry sends Escape, and sends
\* no click and captures no download in that attempt.
C26_NoClickWhenGlbMissing ==
    GlbMissingAttempt =>
        /\ InTrace("escape")
        /\ \A i \in 1..Len(trace) :
               trace[i] \notin {"click_dots", "click_export", "click_glb"}
        /\ ~InTrace("captured")

\* C26: an attempt that finds no GLB entry has clicked the three-dots button,
\* and the Export entry exactly when there was one; it then sends Escape,
\* waits 5 s and continues, having neither clicked a GLB entry nor armed a
\* download listener nor captured a download.
C26_GlbMissingResets ==
    GlbMissingAttempt =>
        /\ Len(trace) >= 2
        /\ trace[Len(trace) - 1] = "escape" /\ trace[Len(trace)] = "wait5000"
        /\ ~InTrace("click_glb") /\ ~InTrace("arm_download") /\ ~InTrace("captured")
        /\ InTrace("click_dots")
        /\ InTrace("click_export") <=> scen.export

C26_Witness == GlbMissingAttempt /\ scen.export /\ InTrace("escape")

\* C27 as stated: a download started by the GLB click is always captured by
\* the attempt that clicked.
C27_DownloadAlwaysCaptured == InTrace("download_starts") => InTrace("captured")

\* C27: the download listener is armed before the GLB entry is clicked and
\* the file-chooser listener before the upload button is clicked; the attempt
\* ends up with the download exactly when the download began while the
\* listener was armed, and a listener that timed out captures nothing.
C27_ListenerArmedBeforeClick ==
    /\ Precedes("arm_download", "click_glb")
    /\ Precedes("arm_chooser", "click_upload")
    /\ Precedes("click_glb", "captured")
    /\ Precedes("click_upload", "chooser")
    /\ InTrace("captured") =>
           (scen.download = "in_window" /\ ~InTrace("listener_timeout"))
    /\ InTrace("listener_timeout") =>
           (scen.download # "in_window" /\ ~InTrace("captured"))
    /\ (scen.frag = "attempt" /\ InTrace("click_glb") /\ tPc # "ex_await") =>
           (InTrace("captured") <=> scen.download = "in_window")

C27_Witness ==
    /\ scen.frag = "attempt" /\ scen.download = "late" /\ tPc = "continue"
    /\ InTrace("download_starts") /\ Precedes("arm_download", "click_glb")
    /\ InTrace("click_glb")

\* C28: the new-artifact predicate.  The predicate of _wait_for_new_layer
\* holds exactly when the list has at least two rows and some row carries a
\* 3-D marker or lacks the original filename; with fewer than two rows it is
\* false.
C28_NewArtifactPredicate ==
    pollRes.kind = "new_layer" =>
        /\ pollRes.ready <=>
               (Len(rows) >= 2 /\ \E i \in 1..Len(rows) :
                                      rows[i].has3d \/ ~rows[i].hasName)
        /\ Len(rows) < 2 => ~pollRes.ready

C28_Witness ==
    /\ pollRes.kind = "new_layer" /\ pollRes.ready /\ Len(rows) = 2
    /\ \A i \in 1..Len(rows) : ~rows[i].has3d
    /\ rows[1].hasName /\ ~rows[2].hasName

\* C29: an attempt without a ready row.  The readiness check sends the
\* attempt to the backoff exactly when it found no ready row, and the backoff
\* leads, with the session usable, to the readiness check of the next attempt
\* number (or out of the loop after the last one) with nothing downloaded,
\* recorded or counted as a failed attempt body: the hover, the menu and the
\* download are not entered.
C29_NotReadyOnlyBacksOff ==
    [][ /\ (pc = "ex_check" /\ pc' # pc) =>
               (pc' = "ex_backoff" <=> ~TryGetReadyRow.ready)
        /\ (pc = "ex_backoff" /\ pc' # pc /\ pageAlive) =>
               /\ saved' = saved /\ exportPath' = exportPath
               /\ bodyFailed' = bodyFailed /\ notReady' = notReady
               /\ IF attempt < MaxExportAttempts
                  THEN pc' = "ex_check" /\ attempt' = attempt + 1
                  ELSE pc' = "ex_return" /\ exportRet' = "exhausted"
      ]_vars

C29_Witness ==
    /\ pc = "ex_check" /\ attempt = 3 /\ notReady = 2 /\ ~bodyFailed /\ pageAlive
    /\ ~saved

AttemptRank(op) ==
    IF op = "check" THEN 1
    ELSE IF op = "hover" THEN 2
    ELSE IF op = "click_dots" THEN 3
    ELSE IF op = "click_export" THEN 4
    ELSE IF op = "click_glb" THEN 5
    ELSE 0

\* C30: order within an export attempt.  Readiness check, row hover,
\* three-dots click, Export click, GLB click occur in this order, each at
\* most once; the GLB entry is clicked only when the check found a ready row
\* and the three-dots button was found in it and clicked; and with both found
\* the three-dots button is clicked whatever the hover did.
C30_AttemptOrder ==
    scen.frag = "attempt" =>
        /\ InRankOrder(AttemptRank)
        /\ \A op \in {"check", "hover", "click_dots", "click_export", "click_glb"} :
               AtMostOnce(op)
        /\ InTrace("click_glb") =>
               /\ scen.ready /\ scen.dots = "found"
               /\ Precedes("check", "click_glb") /\ Precedes("click_dots", "click_glb")
        /\ (scen.ready /\ scen.dots = "found"
            /\ tPc \notin {"ex_check", "ex_hover", "ex_dots"}) => InTrace("click_dots")

C30_Witness ==
    /\ scen.frag = "attempt" /\ scen.hover = "raise" /\ InTrace("hover_fault")
    /\ InTrace("click_dots") /\ InTrace("click_export") /\ InTrace("click_glb")

PromptRank(op) ==
    IF op = "fill" THEN 1
    ELSE IF op = "click_generate" THEN 2
    ELSE IF op = "wait_add" THEN 3
    ELSE IF op = "click_add" THEN 4
    ELSE IF op \in {"close_found", "close_missing", "click_close"} THEN 5
    ELSE 0

\* C31: order of the prompt step.  Fill, the click on Generate, the wait for
\* the Add button, the click on Add and the closing of the modal occur in
\* this order; Generate is clicked only after the textarea was filled, Add
\* only after the wait that follows the click on Generate returned it; and
\* when the textarea is missing, the fill faults, Generate is missing or Add
\* does not appear, that stage is the last operation of the step, which ends
\* with `continue`.
C31_PromptStepOrder ==
    scen.frag = "prompt" =>
        /\ InRankOrder(PromptRank)
        /\ Precedes("fill", "click_generate")
        /\ Precedes("click_generate", "wait_add")
        /\ Precedes("add_appeared", "click_add")
        /\ Precedes("wait_add", "add_appeared")
        /\ \A i \in 1..Len(trace) :
               trace[i] \in {"textarea_missing", "fill_fault", "generate_missing",
                             "add_timeout"} =>
                   i = Len(trace) /\ tPc = "skipped"
        /\ tPc = "skipped" =>
               ~(scen.textarea /\ scen.fill /\ scen.generate /\ scen.add)
        /\ tPc = "finished" =>
               /\ InTrace("fill") /\ InTrace("click_generate")
               /\ InTrace("click_add") /\ InTrace("delay")

\* A step that filled the textarea and clicked Generate, and was left when
\* the Add button did not appear.
C31_Witness ==
    /\ scen.frag = "prompt" /\ tPc = "skipped"
    /\ InTrace("fill") /\ InTrace("click_generate") /\ InTrace("add_timeout")

\* A handle whose node is gone: click(), click(force=True) and evaluate() on
\* it raise.
StaleHandle(el) == el.kind = "handle" /\ ~el.native /\ ~el.forced /\ ~el.script

\* C32 as stated: a stale handle alone does not make the coordinate click
\* fail.  A call of retry_click that reaches its 4th technique with a stale
\* handle returns True whenever a pointer click at the control's coordinates
\* goes through.
C32_CoordinateClickSurvivesStaleHandle ==
    (/\ ckPc = "returned" /\ StaleHandle(ckElem) /\ ckElem.mouse
     /\ ckMax >= 4)
        => ckRet = "True"

\* C33 as stated: once an attempt has captured and saved a download the
\* export loop starts no further attempt: with a download saved the loop is
\* at the screenshot after the export or has returned, never at a readiness
\* check, a back-off, a hover, a menu click or a download of a later attempt.
C33_NoAttemptAfterSave ==
    saved => pc \notin {"ex_check", "ex_backoff", "ex_hover", "ex_menu", "ex_download"}

\* The row shows a ready icon and no spinner.
ShowsReady(row) == (row.mesh \/ row.check) /\ ~row.spinner

\* C34 as stated: every row _wait_for_new_layer returns is a row the export
\* loop can judge ready.  When the returned row shows a ready icon, has no
\* spinner and there is no loading banner, the readiness check of an export
\* attempt on that page resolves it as the ready row, whether the row was
\* returned for its 3-D marker or for not carrying the original file name.
C34_ReturnedRowCanBeJudgedReady ==
    (/\ pollRes.kind = "new_layer" /\ pollRes.row # 0
     /\ ShowsReady(rows[pollRes.row]) /\ ~banner)
        => LayerReadyAndRow(banner, rows) = [ready |-> TRUE, row |-> pollRes.row]

\* C35 as stated: once the predicate of _wait_for_new_layer was satisfied
\* before the deadline the call returns a row, not None, also when the layer
\* list changed before the rows were queried again (the query returning and
\* every label being readable).
C35_RowOncePredicateHeld ==
    (/\ scen.frag = "wait_layer" /\ tPc = "returned"
     /\ InTrace("predicate_held") /\ scen.query
     /\ scen.raise1 = {} /\ scen.raise2 = {})
        => scen.ret # 0

\* A call of _wait_for_new_layer that queried the rows and is over.
RowsSelected ==
    scen.frag = "wait_layer" /\ tPc = "returned" /\ InTrace("query_rows") /\ scen.query

\* The least index of 1..Len(scen.labels) that satisfies P, 0 if none does.
FirstRowWith(P(_)) ==
    IF \E i \in 1..Len(scen.labels) : P(i)
    THEN CHOOSE i \in 1..Len(scen.labels) :
             P(i) /\ \A j \in 1..(i - 1) : ~P(j)
    ELSE 0

\* C36 as stated: the call returns the first row whose label carries a 3-D
\* marker if any row does, otherwise the first row whose label does not
\* contain the original filename.
C36_FirstMarkedElseFirstOther ==
    RowsSelected =>
        scen.ret =
            IF \E i \in 1..Len(scen.labels) : scen.labels[i].has3d
            THEN FirstRowWith(LAMBDA i : scen.labels[i].has3d)
            ELSE FirstRowWith(LAMBDA i : ~scen.labels[i].hasName)

\* C36: row selection over the labels as read.  The call returns the first
\* row whose label was read in the first loop and carries a 3-D marker, if
\* there is one; otherwise the first row whose label, in the second loop,
\* could not be read or does not contain the original filename; otherwise
\* None.  It never returns a row without a 3-D marker whose label was read in
\* the second loop and contains the original filename.
C36_RowSelectionAsRead ==
    RowsSelected =>
        /\ scen.ret =
              IF \E i \in 1..Len(scen.labels) :
                     i \notin scen.raise1 /\ scen.labels[i].has3d
              THEN FirstRowWith(LAMBDA i : i \notin scen.raise1 /\ scen.labels[i].has3d)
              ELSE FirstRowWith(LAMBDA i : i \in scen.raise2 \/ ~scen.labels[i].hasName)
        /\ (/\ scen.ret # 0 /\ scen.labels[scen.ret].hasName
            /\ ~scen.labels[scen.ret].has3d)
               => scen.ret \in scen.raise2

\* A row with a 3-D marker whose label could not be read in the first loop,
\* and an unmarked row above it returned in its place.
C36_Witness ==
    /\ RowsSelected /\ Len(scen.labels) = 2
    /\ ~scen.labels[1].has3d /\ scen.labels[2].has3d
    /\ 2 \in scen.raise1 /\ scen.ret = 1

\* The steps of the list built for a run with or without a prompt that are
\* named text.
StepsNamed(withPrompt, text) ==
    {i \in 1..Len(ButtonsToClick(withPrompt)) : ButtonsToClick(withPrompt)[i].text = text}

\* C37: the start of the generation wait and export.
\* _handle_generation_and_export is started only in the options step, of
\* which every run has exactly one, at most once in it and only after the
\* 'Generate 3D' item was found; and when the item is found at the first
\* query and the 500 ms wait returns it is started whether the click on the
\* item succeeded or not.
C37_ExportStartedOnceAfterFound ==
    /\ \A p \in BOOLEAN : Cardinality(StepsNamed(p, "options_button")) = 1
    /\ InTrace("start_export") =>
          /\ scen.frag = "options"
          /\ AtMostOnce("start_export")
          /\ Precedes("gen_found", "start_export")
          /\ Precedes("click_generate3d", "start_export")
    /\ (/\ scen.frag = "options" /\ tPc \in {"export", "finished"}
        /\ scen.found /\ scen.gen = "found" /\ scen.wait)
          => InTrace("start_export")

\* The item was found, no technique clicked it, and the export was started.
C37_Witness ==
    /\ scen.frag = "options" /\ tPc = "export" /\ InTrace("start_export")
    /\ InTrace("click_generate3d") /\ ~InTrace("generate3d_clicked")

\* C38: a failed push to the key-value store.  An attempt whose push failed
\* has recorded the path before the push, counts as a success (it sends no
\* Escape and goes on to the screenshot after the export) and ends as the
\* same attempt with a successful push does: the loop returns once the
\* screenshot is through.
C38_PushFailureKeepsOutcome ==
    scen.frag = "attempt" =>
        /\ InTrace("kv_fault") =>
              /\ Precedes("record_path", "kv_fault")
              /\ ~InTrace("escape")
              /\ tPc \in {"ex_post", "returned", "continue"}
              /\ (tPc # "ex_post" /\ scen.shot) => tPc = "returned"
        /\ (InTrace("save") /\ tPc \in {"returned", "continue"}) =>
              (tPc = "returned" <=> scen.shot)

C38_Witness ==
    /\ scen.frag = "attempt" /\ tPc = "returned"
    /\ InTrace("kv_fault") /\ InTrace("record_path") /\ ~scen.kv

\* C39: the post-delay of a generic step.  wait_for_timeout(delay) and the
\* screenshot after the click happen only in a step whose look-up returned a
\* handle and whose retry_click returned True, and in every such step; a
\* step whose look-up of lines 858-876 found nothing ends with the look-up
\* (and its snapshot of the page), a step whose click techniques all failed
\* ends with the call of retry_click, and neither waits before the next step.
C39_PostDelayOnlyAfterClick ==
    scen.frag = "step" =>
        /\ (InTrace("delay") \/ InTrace("screenshot_after")) =>
              /\ scen.found
              /\ RetryClick(scen.el, DefaultClickAttempts) = "True"
              /\ Precedes("activate", "delay")
              /\ Precedes("delay", "screenshot_after")
        /\ (tPc = "finished") <=> InTrace("delay")
        /\ tPc = "click_failed" =>
              /\ RetryClick(scen.el, DefaultClickAttempts) = "False"
              /\ trace[Len(trace)] = "activate"
        /\ (tPc = "skipped" /\ scen.text # "Start in Studio") =>
              /\ ~scen.found
              /\ \A i \in 1..Len(trace) :
                     trace[i] = "unresolved" =>
                         \A j \in (i + 1)..Len(trace) :
                             trace[j] \in {"screenshot", "markup"}
        /\ tPc \in {"skipped", "click_failed"} => ~InTrace("delay")

\* Every click technique failed on the resolved button and the step was left
\* without the post-delay.
C39_Witness ==
    /\ scen.frag = "step" /\ tPc = "click_failed" /\ scen.found
    /\ InTrace("activate") /\ ~InTrace("delay")

====
